---------------------------- MODULE Spec2Model ----------------------------
(***************************************************************************)
(* Detonation Scanner: the multi-source quote / fundamentals aggregation   *)
(* and scan pipeline of supabase/functions/live-scan/index.ts and the      *)
(* client library under src/lib.                                           *)
(*                                                                         *)
(* A nullable value (number | null, string | null, an optional field) is   *)
(* the empty tuple when absent and a one-element tuple when present.       *)
(***************************************************************************)
EXTENDS Integers, Sequences, FiniteSets, TLC

VARIABLES
    pc,          \* control position of the running component
    quotes,      \* mergeRawQuotes: the RawQuote[] argument
    merged,      \* mergeRawQuotes: the value returned
    snapshots,   \* mergeFundamentals: the FundamentalSnapshot[] argument
    mergedFund,  \* mergeFundamentals: the value returned
    request,     \* the ScanRequest {mode, filters}
    universe,    \* buildLiveUniverse(request) of the edge function
    universeLib, \* buildLiveUniverse(request) of the client library
    environment,        \* which vendor credentials the edge function has
    mergedQuotes,       \* serve: Map ticker -> merged RawQuote
    mergedFundamentals, \* serve: Map ticker -> merged FundamentalSnapshot
    topMoverTickers,    \* serve: the tickers news is fetched for
    newsByTicker,       \* serve: Map ticker -> RawNewsItem[], newest first
    results,            \* serve: the ScanResults assembled, before the filters
    response,           \* the HTTP response of the edge function
    outcome,            \* how the client's runScan promise settled
    libResults,         \* applyFiltersToResults: the ScanResult[] argument
    libFilters,         \* applyFiltersToResults: the ScanFilters argument
    libFiltered,        \* applyFiltersToResults: the value returned
    scoreArgs,          \* deriveScoreBreakdown: changePercent, volume and mode
    scoreOut,           \* the score breakdown and explosivePotential derived
    vendorAnswers,      \* what the vendors' endpoints answer during one scan
    scans,              \* overlapping invocations of serve: the locals of each
    tickerRegistry,     \* the module-level TICKER_UNIVERSE array of the edge function
    watchlist,          \* pages/Index: the watchlist state React holds
    rendered,           \* pages/Index: the watchlist captured by the last render
    updates,            \* pages/Index: setWatchlist updaters not yet applied
    newsArg,            \* buildCatalystFromNews: the RawNewsItem[] argument
    catalystOut         \* buildCatalystFromNews: the value returned

mergeVars == <<quotes, merged>>
fundVars  == <<snapshots, mergedFund>>
uniVars   == <<universe, universeLib>>
serveVars == <<mergedQuotes, mergedFundamentals, topMoverTickers, newsByTicker, results>>
scanVars  == <<environment, serveVars, response, outcome>>
libVars   == <<libResults, libFilters, libFiltered>>
scoreVars == <<scoreArgs, scoreOut>>
overlapVars == <<scans, tickerRegistry>>
uiVars    == <<watchlist, rendered, updates>>
catalystVars == <<newsArg, catalystOut>>
vars      == <<pc, quotes, merged, snapshots, mergedFund, request, universe, universeLib,
               environment, mergedQuotes, mergedFundamentals, topMoverTickers,
               newsByTicker, results, response, outcome,
               libResults, libFilters, libFiltered, scoreArgs, scoreOut,
               vendorAnswers, scans, tickerRegistry, watchlist, rendered, updates,
               newsArg, catalystOut>>

-----------------------------------------------------------------------------
(* Nullable values *)

Null      == <<>>
Some(v)   == <<v>>
IsNull(x) == x = <<>>
Val(x)    == x[1]
\* x ?? d
OrElse(x, d) == IF IsNull(x) THEN d ELSE Val(x)

\* Array.prototype.sort((a, b) => key(b) - key(a)), which is stable: the
\* order of the indices of `keys` after a descending sort. The element at
\* index i lands after every element with a strictly larger key and after the
\* earlier elements with the same key.
StableDescOrder(keys) ==
    LET rank(i) == 1 + Cardinality({ j \in 1..Len(keys) :
                         \/ keys[j] > keys[i]
                         \/ (keys[j] = keys[i] /\ j < i) })
    IN [p \in 1..Len(keys) |-> CHOOSE i \in 1..Len(keys) : rank(i) = p]

\* The elements of `items` in the order of the indices `order`
Permute(items, order) == [p \in 1..Len(order) |-> items[order[p]]]

-----------------------------------------------------------------------------
(* Quote merger: mergeRawQuotes *)

\* Mutant: a quote counts as complete on its price alone.
IsCompleteQuote_PriceOnly(q) == ~IsNull(q.price)

\* q.price != null && q.prevClose != null
IsCompleteQuote(q) == ~IsNull(q.price) /\ ~IsNull(q.prevClose)

\* a.timestamp ?? 0
TimestampKey(q) == OrElse(q.timestamp, 0)

\* Mutant: the comparator subtracts the other way round (ta - tb), so the
\* oldest quote comes first.
SortByRecency_Reversed(valid) ==
    LET order == StableDescOrder([i \in 1..Len(valid) |-> 0 - TimestampKey(valid[i])])
    IN [p \in 1..Len(valid) |-> valid[order[p]]]

\* [...valid].sort((a, b) => (b.timestamp ?? 0) - (a.timestamp ?? 0))
SortByRecency(valid) ==
    LET order == StableDescOrder([i \in 1..Len(valid) |-> TimestampKey(valid[i])])
    IN [p \in 1..Len(valid) |-> valid[order[p]]]

\* Mutant: the loop has no break, so the last non-null volume wins.
RECURSIVE FirstVolume_NoBreak(_)
FirstVolume_NoBreak(sorted) ==
    IF sorted = <<>> THEN Null
    ELSE LET rest == FirstVolume_NoBreak(Tail(sorted))
         IN IF ~IsNull(rest) THEN rest ELSE Head(sorted).volume

\* for (const q of sorted) if (q.volume != null) { volume = q.volume; break; }
RECURSIVE FirstVolume(_)
FirstVolume(sorted) ==
    IF sorted = <<>> THEN Null
    ELSE IF ~IsNull(Head(sorted).volume) THEN Head(sorted).volume
         ELSE FirstVolume(Tail(sorted))

\* Mutant: no complete quote gives null instead of the first raw quote.
mergeRawQuotes_NullWhenPartial(qs) ==
    LET valid == SelectSeq(qs, IsCompleteQuote)
    IN IF Len(valid) = 0 THEN Null
       ELSE LET sorted  == SortByRecency(valid)
                primary == sorted[1]
                volume  == IF IsNull(primary.volume) THEN FirstVolume(sorted)
                           ELSE primary.volume
            IN Some([primary EXCEPT !.volume = volume])

mergeRawQuotes(qs) ==
    IF Len(qs) = 0 THEN Null
    ELSE LET valid == SelectSeq(qs, IsCompleteQuote)
         IN IF Len(valid) = 0 THEN Some(qs[1])
            ELSE LET sorted  == SortByRecency(valid)
                     primary == sorted[1]
                     volume  == IF IsNull(primary.volume) THEN FirstVolume(sorted)
                                ELSE primary.volume
                 IN Some([primary EXCEPT !.volume = volume])

-----------------------------------------------------------------------------
(* Inputs of the quote merger *)

MaxQuotes == 3

QuoteSources == <<"finnhub", "massive", "iex", "alphavantage">>

\* One quote per provider: the i-th quote of a list comes from the i-th source.
SourceAt(i) == QuoteSources[((i - 1) % Len(QuoteSources)) + 1]

PriceChoices     == { <<Null, Some(40)>>, <<Some(45), Null>>, <<Some(45), Some(40)>> }
VolumeChoices    == { Null, Some(0), Some(500) }
TimestampChoices == { Null, Some(0), Some(1) }

QuoteAt(i, pp, v, t) ==
    [source |-> SourceAt(i), ticker |-> "AAPL", price |-> pp[1], prevClose |-> pp[2],
     volume |-> v, timestamp |-> t]

QuoteChoices == PriceChoices \X VolumeChoices \X TimestampChoices

IdleMergeQuotes       == quotes = <<>> /\ merged = Null
IdleMergeFundamentals == snapshots = <<>> /\ mergedFund = Null
IdleUniverse          == request = Null /\ universe = <<>> /\ universeLib = <<>>
IdleServe             == /\ mergedQuotes = <<>> /\ mergedFundamentals = <<>>
                         /\ topMoverTickers = <<>> /\ newsByTicker = <<>> /\ results = <<>>
IdleScan              == /\ environment = Null /\ IdleServe
                         /\ response = Null /\ outcome = Null
IdleFilters           == libResults = <<>> /\ libFilters = Null /\ libFiltered = Null
IdleScorer            == scoreArgs = Null /\ scoreOut = Null
IdleVendors           == vendorAnswers = Null
IdleOverlap           == scans = Null /\ tickerRegistry = Null
IdleWatchlist         == watchlist = <<>> /\ rendered = <<>> /\ updates = <<>>
IdleCatalyst          == newsArg = <<>> /\ catalystOut = Null

InitMergeQuotes ==
    /\ pc = "start"
    /\ \E n \in 0..MaxQuotes : \E f \in [1..n -> QuoteChoices] :
          quotes = [i \in 1..n |-> QuoteAt(i, f[i][1], f[i][2], f[i][3])]
    /\ merged = Null
    /\ IdleMergeFundamentals
    /\ IdleUniverse
    /\ IdleScan
    /\ IdleFilters
    /\ IdleScorer
    /\ IdleVendors
    /\ IdleOverlap
    /\ IdleWatchlist
    /\ IdleCatalyst

MergeQuotes ==
    /\ pc = "start"
    /\ merged' = mergeRawQuotes(quotes)
    /\ pc' = "merged"
    /\ UNCHANGED <<libVars, scoreVars, vendorAnswers, overlapVars, uiVars, catalystVars, quotes, fundVars, request, uniVars, scanVars>>

NextMergeQuotes == MergeQuotes

SpecMergeQuotes == InitMergeQuotes /\ [][NextMergeQuotes]_vars

-----------------------------------------------------------------------------
(* Properties of the quote merger, under SpecMergeQuotes *)

CompleteIdx == { i \in 1..Len(quotes) : IsCompleteQuote(quotes[i]) }

\* Quote i comes before quote j in recency order: a strictly larger timestamp
\* (null as 0), or the same timestamp and an earlier place in the input.
MoreRecent(i, j) ==
    \/ TimestampKey(quotes[i]) > TimestampKey(quotes[j])
    \/ (TimestampKey(quotes[i]) = TimestampKey(quotes[j]) /\ i < j)

\* Index i is the most recent complete quote.
IsPrimaryIdx(i) ==
    /\ i \in CompleteIdx
    /\ \A j \in CompleteIdx \ {i} : MoreRecent(i, j)

SameButVolume(m, q) ==
    /\ m.source = q.source
    /\ m.ticker = q.ticker
    /\ m.price = q.price
    /\ m.prevClose = q.prevClose
    /\ m.timestamp = q.timestamp

\* C1: whenever at least one quote of a non-empty list has both price and
\* prevClose, the merged result is non-null and has both price and prevClose.
C1_MergeComplete ==
    (pc = "merged" /\ CompleteIdx # {}) =>
        /\ ~IsNull(merged)
        /\ ~IsNull(Val(merged).price)
        /\ ~IsNull(Val(merged).prevClose)

\* C1 witness: a merge of a list whose first quote is partial and a later one complete.
C1_Witness ==
    /\ pc = "merged"
    /\ Len(quotes) >= 2
    /\ ~IsCompleteQuote(quotes[1])
    /\ CompleteIdx # {}
    /\ ~IsNull(merged)

\* C2: the merged source, ticker, price, prevClose and timestamp are those of
\* the complete quote with the maximal timestamp (null as 0), the earliest in
\* the input among equal timestamps; a partial quote is never the primary.
C2_MostRecentWins ==
    (pc = "merged" /\ CompleteIdx # {}) =>
        \E i \in CompleteIdx :
            /\ IsPrimaryIdx(i)
            /\ ~IsNull(merged)
            /\ SameButVolume(Val(merged), quotes[i])

\* C2 witness: the newest quote is partial, and an older complete quote that
\* is not first in the input is the primary.
C2_Witness ==
    /\ pc = "merged"
    /\ \E i \in CompleteIdx :
          /\ i > 1
          /\ IsPrimaryIdx(i)
          /\ Val(merged).source = quotes[i].source
          /\ \E k \in (1..Len(quotes)) \ CompleteIdx :
                TimestampKey(quotes[k]) > TimestampKey(quotes[i])
          /\ \E j \in CompleteIdx : j # i

\* C3: a primary without volume takes the volume of the first complete quote
\* in recency order that has one (null if none has), every other field being
\* the primary's; a primary with a volume keeps it.
C3_VolumeBackfill ==
    (pc = "merged" /\ CompleteIdx # {}) =>
        \A i \in CompleteIdx : IsPrimaryIdx(i) =>
            LET withVol == { j \in CompleteIdx : ~IsNull(quotes[j].volume) }
                m       == Val(merged)
            IN /\ SameButVolume(m, quotes[i])
               /\ ~IsNull(quotes[i].volume) => m.volume = quotes[i].volume
               /\ (IsNull(quotes[i].volume) /\ withVol = {}) => IsNull(m.volume)
               /\ (IsNull(quotes[i].volume) /\ withVol # {}) =>
                     \E k \in withVol :
                        /\ \A j \in withVol \ {k} : MoreRecent(k, j)
                        /\ m.volume = quotes[k].volume

\* C3 witness: the primary has no volume and two other complete quotes carry
\* different volumes; the more recent of the two is borrowed.
C3_Witness ==
    /\ pc = "merged"
    /\ \E i, k, j \in CompleteIdx :
          /\ IsPrimaryIdx(i)
          /\ IsNull(quotes[i].volume)
          /\ ~IsNull(quotes[k].volume) /\ ~IsNull(quotes[j].volume)
          /\ quotes[k].volume # quotes[j].volume
          /\ MoreRecent(k, j)
          /\ Val(merged).volume = quotes[k].volume

-----------------------------------------------------------------------------
(* Fundamentals merger: mergeFundamentals *)

\* Mutant: a later snapshot's non-null field replaces the one already there.
FillFrom_LastWins(m, snap) ==
    [m EXCEPT !.marketCap = IF ~IsNull(snap.marketCap) THEN snap.marketCap ELSE @,
              !.float     = IF ~IsNull(snap.float) THEN snap.float ELSE @,
              !.sector    = IF ~IsNull(snap.sector) THEN snap.sector ELSE @]

\* One pass of the loop body: if (snap.x != null && merged.x == null) merged.x = snap.x
FillFrom(m, snap) ==
    [m EXCEPT !.marketCap = IF ~IsNull(snap.marketCap) /\ IsNull(@) THEN snap.marketCap ELSE @,
              !.float     = IF ~IsNull(snap.float) /\ IsNull(@) THEN snap.float ELSE @,
              !.sector    = IF ~IsNull(snap.sector) /\ IsNull(@) THEN snap.sector ELSE @]

\* for (const snap of snapshots.slice(1)) { ... }
RECURSIVE FillAll(_, _)
FillAll(m, rest) ==
    IF rest = <<>> THEN m ELSE FillAll(FillFrom(m, Head(rest)), Tail(rest))

mergeFundamentals(snaps) ==
    IF Len(snaps) = 0 THEN Null
    ELSE Some(FillAll(snaps[1], Tail(snaps)))

(* Inputs of the fundamentals merger *)

MaxSnapshots == 3

SnapshotSectors == <<"Technology", "Biotech", "Energy", "Retail">>
TickerSpellings == {"AAPL", "AAPL.US"}

\* The i-th snapshot's values, when present, are its own: no two snapshots
\* of a list carry the same market cap, float or sector.
SnapshotAt(i, tk, hasCap, hasFloat, hasSector) ==
    [ticker    |-> tk,
     marketCap |-> IF hasCap THEN Some(10 * (i - 1)) ELSE Null,
     float     |-> IF hasFloat THEN Some(5 * (i - 1)) ELSE Null,
     sector    |-> IF hasSector
                   THEN Some(SnapshotSectors[((i - 1) % Len(SnapshotSectors)) + 1])
                   ELSE Null]

SnapshotChoices == TickerSpellings \X BOOLEAN \X BOOLEAN \X BOOLEAN

InitMergeFundamentals ==
    /\ pc = "start"
    /\ \E n \in 0..MaxSnapshots : \E f \in [1..n -> SnapshotChoices] :
          snapshots = [i \in 1..n |-> SnapshotAt(i, f[i][1], f[i][2], f[i][3], f[i][4])]
    /\ mergedFund = Null
    /\ IdleMergeQuotes
    /\ IdleUniverse
    /\ IdleScan
    /\ IdleFilters
    /\ IdleScorer
    /\ IdleVendors
    /\ IdleOverlap
    /\ IdleWatchlist
    /\ IdleCatalyst

MergeFundamentals ==
    /\ pc = "start"
    /\ mergedFund' = mergeFundamentals(snapshots)
    /\ pc' = "merged"
    /\ UNCHANGED <<libVars, scoreVars, vendorAnswers, overlapVars, uiVars, catalystVars, snapshots, mergeVars, request, uniVars, scanVars>>

NextMergeFundamentals == MergeFundamentals

SpecMergeFundamentals == InitMergeFundamentals /\ [][NextMergeFundamentals]_vars

-----------------------------------------------------------------------------
(* Properties of the fundamentals merger, under SpecMergeFundamentals *)

\* The value of a field in the first snapshot that has it, null if none has.
FirstWithCap ==
    LET has == { i \in 1..Len(snapshots) : ~IsNull(snapshots[i].marketCap) }
    IN IF has = {} THEN Null
       ELSE snapshots[CHOOSE i \in has : \A j \in has : i <= j].marketCap

FirstWithFloat ==
    LET has == { i \in 1..Len(snapshots) : ~IsNull(snapshots[i].float) }
    IN IF has = {} THEN Null
       ELSE snapshots[CHOOSE i \in has : \A j \in has : i <= j].float

FirstWithSector ==
    LET has == { i \in 1..Len(snapshots) : ~IsNull(snapshots[i].sector) }
    IN IF has = {} THEN Null
       ELSE snapshots[CHOOSE i \in has : \A j \in has : i <= j].sector

-----------------------------------------------------------------------------
(* Universe selector: buildLiveUniverse *)

\* The registry of the edge function
TICKER_UNIVERSE == <<
    [symbol |-> "AAPL", sector |-> "Technology", capBucket |-> "large"],
    [symbol |-> "TSLA", sector |-> "Consumer", capBucket |-> "large"],
    [symbol |-> "NVDA", sector |-> "Technology", capBucket |-> "large"],
    [symbol |-> "AMD", sector |-> "Technology", capBucket |-> "large"],
    [symbol |-> "SMCI", sector |-> "Technology", capBucket |-> "mid"],
    [symbol |-> "PLTR", sector |-> "Technology", capBucket |-> "mid"],
    [symbol |-> "TQQQ", sector |-> "ETF", capBucket |-> "mid"],
    [symbol |-> "SOXL", sector |-> "ETF", capBucket |-> "mid"],
    [symbol |-> "IWM", sector |-> "ETF", capBucket |-> "large"],
    [symbol |-> "RIOT", sector |-> "Crypto", capBucket |-> "small"],
    [symbol |-> "MARA", sector |-> "Crypto", capBucket |-> "small"],
    [symbol |-> "HUDI", sector |-> "Industrial", capBucket |-> "micro"],
    [symbol |-> "IONQ", sector |-> "Technology", capBucket |-> "small"],
    [symbol |-> "DNA", sector |-> "Biotech", capBucket |-> "small"],
    [symbol |-> "JOBY", sector |-> "Industrial", capBucket |-> "small"],
    [symbol |-> "ASTS", sector |-> "Communications", capBucket |-> "small"],
    [symbol |-> "GME", sector |-> "Consumer", capBucket |-> "mid"],
    [symbol |-> "AMC", sector |-> "Consumer", capBucket |-> "mid"],
    [symbol |-> "CVNA", sector |-> "Consumer", capBucket |-> "mid"],
    [symbol |-> "FFIE", sector |-> "Consumer", capBucket |-> "micro"],
    [symbol |-> "SOUN", sector |-> "Technology", capBucket |-> "small"],
    [symbol |-> "AI", sector |-> "Technology", capBucket |-> "mid"] >>

\* The registry of the client library (lib/universe)
TICKER_UNIVERSE_LIB == <<
    [symbol |-> "AAPL", sector |-> "Technology", capBucket |-> "large"],
    [symbol |-> "MSFT", sector |-> "Technology", capBucket |-> "large"],
    [symbol |-> "GOOGL", sector |-> "Technology", capBucket |-> "large"],
    [symbol |-> "AMZN", sector |-> "Technology", capBucket |-> "large"],
    [symbol |-> "META", sector |-> "Technology", capBucket |-> "large"],
    [symbol |-> "TSLA", sector |-> "Consumer", capBucket |-> "large"],
    [symbol |-> "NVDA", sector |-> "Technology", capBucket |-> "large"],
    [symbol |-> "AMD", sector |-> "Technology", capBucket |-> "large"],
    [symbol |-> "AVGO", sector |-> "Technology", capBucket |-> "large"],
    [symbol |-> "SMCI", sector |-> "Technology", capBucket |-> "mid"],
    [symbol |-> "PLTR", sector |-> "Technology", capBucket |-> "mid"],
    [symbol |-> "ARM", sector |-> "Technology", capBucket |-> "mid"],
    [symbol |-> "AI", sector |-> "Technology", capBucket |-> "mid"],
    [symbol |-> "TQQQ", sector |-> "ETF", capBucket |-> "mid"],
    [symbol |-> "SOXL", sector |-> "ETF", capBucket |-> "mid"],
    [symbol |-> "IWM", sector |-> "ETF", capBucket |-> "large"],
    [symbol |-> "SPY", sector |-> "ETF", capBucket |-> "large"],
    [symbol |-> "QQQ", sector |-> "ETF", capBucket |-> "large"],
    [symbol |-> "RIOT", sector |-> "Crypto", capBucket |-> "small"],
    [symbol |-> "MARA", sector |-> "Crypto", capBucket |-> "small"],
    [symbol |-> "CLSK", sector |-> "Crypto", capBucket |-> "small"],
    [symbol |-> "IONQ", sector |-> "Technology", capBucket |-> "small"],
    [symbol |-> "DNA", sector |-> "Biotech", capBucket |-> "small"],
    [symbol |-> "JOBY", sector |-> "Industrial", capBucket |-> "small"],
    [symbol |-> "ASTS", sector |-> "Communications", capBucket |-> "small"],
    [symbol |-> "SOUN", sector |-> "Technology", capBucket |-> "small"],
    [symbol |-> "PLUG", sector |-> "Energy", capBucket |-> "small"],
    [symbol |-> "GME", sector |-> "Consumer", capBucket |-> "mid"],
    [symbol |-> "AMC", sector |-> "Consumer", capBucket |-> "mid"],
    [symbol |-> "CVNA", sector |-> "Consumer", capBucket |-> "mid"],
    [symbol |-> "FFIE", sector |-> "Consumer", capBucket |-> "micro"],
    [symbol |-> "HUDI", sector |-> "Industrial", capBucket |-> "micro"],
    [symbol |-> "MRNA", sector |-> "Biotech", capBucket |-> "mid"],
    [symbol |-> "CRSP", sector |-> "Biotech", capBucket |-> "small"],
    [symbol |-> "RXRX", sector |-> "Biotech", capBucket |-> "small"] >>

UniverseCap == 40

Min(a, b) == IF a <= b THEN a ELSE b

\* Mutant: capBucket === 'micro' || 'small' is always truthy.
ModeKeeps_CmbmAlwaysTrue(mode, meta) ==
    CASE mode = "cmbm-style" -> TRUE
      [] mode = "momentum" -> meta.sector \in {"Technology", "Crypto", "ETF"}
      [] mode = "catalyst-hunter" -> meta.capBucket # "large" \/ meta.sector # "ETF"
      [] OTHER -> TRUE

\* The mode's predicate over TickerMeta
ModeKeeps(mode, meta) ==
    CASE mode = "cmbm-style" -> meta.capBucket = "micro" \/ meta.capBucket = "small"
      [] mode = "momentum" -> meta.sector \in {"Technology", "Crypto", "ETF"}
      [] mode = "catalyst-hunter" -> meta.capBucket # "large" \/ meta.sector # "ETF"
      [] OTHER -> TRUE

\* if (filters.marketCap !== 'any') pool = pool.filter(meta => meta.capBucket === filters.marketCap)
CapKeeps(filters, meta) ==
    filters.marketCap # "any" => meta.capBucket = filters.marketCap

\* if (filters.sectors && filters.sectors.length > 0)
\*   pool = pool.filter(meta => filters.sectors.includes(meta.sector))
\* The sectors array is read only through length and includes(): a set.
SectorKeeps(filters, meta) ==
    filters.sectors # {} => meta.sector \in filters.sectors

\* Mutant: slice(1, 40) drops the first entry.
Slice_SkipsFirst(pool) == SubSeq(pool, 2, Min(UniverseCap, Len(pool)))

\* pool.slice(0, 40)
Slice(pool) == SubSeq(pool, 1, Min(UniverseCap, Len(pool)))

\* The filters and the slice of buildLiveUniverse over the array `pool`; filter
\* and slice return new arrays and leave `pool` as it is.
buildLiveUniverseFrom(pool, req) ==
    LET byMode(meta)   == ModeKeeps(req.mode, meta)
        byCap(meta)    == CapKeeps(req.filters, meta)
        bySector(meta) == SectorKeeps(req.filters, meta)
    IN Slice(SelectSeq(SelectSeq(SelectSeq(pool, byMode), byCap), bySector))

buildLiveUniverse(req) == buildLiveUniverseFrom(TICKER_UNIVERSE, req)

\* lib/universe: matchesMarketCap, matchesSector
matchesMarketCap(filters, meta) ==
    IF filters.marketCap = "any" THEN TRUE ELSE filters.marketCap = meta.capBucket

matchesSector(filters, meta) ==
    IF filters.sectors = {} THEN TRUE ELSE meta.sector \in filters.sectors

\* lib/universe: the mode's predicate
ModeKeepsLib(mode, meta) ==
    CASE mode = "cmbm-style" -> meta.capBucket = "micro" \/ meta.capBucket = "small"
      [] mode = "momentum" -> meta.sector \in {"Technology", "Crypto", "ETF"}
      [] mode = "catalyst-hunter" -> ~(meta.capBucket = "large" /\ meta.sector = "ETF")
      [] OTHER -> TRUE

buildLiveUniverseLib(req) ==
    LET byMode(meta)    == ModeKeepsLib(req.mode, meta)
        byFilters(meta) == matchesMarketCap(req.filters, meta) /\ matchesSector(req.filters, meta)
    IN Slice(SelectSeq(SelectSeq(TICKER_UNIVERSE_LIB, byMode), byFilters))

(* Inputs of the universe selector *)

MaxFilterSectors == 2

ScanModes       == {"daily-volatility", "catalyst-hunter", "cmbm-style", "momentum"}
MarketCapRanges == {"micro", "small", "mid", "any"}

\* The sectors of the two registries and one sector no registry entry has.
SectorPool == { TICKER_UNIVERSE_LIB[i].sector : i \in 1..Len(TICKER_UNIVERSE_LIB) }
                \cup {"Retail"}

SectorFilters == { S \in SUBSET SectorPool : Cardinality(S) <= MaxFilterSectors }

ScanRequest(mode, cap, minPrice, maxPrice, minVolume, sectors) ==
    [mode |-> mode,
     filters |-> [marketCap |-> cap, minPrice |-> minPrice, maxPrice |-> maxPrice,
                  minVolume |-> minVolume, sectors |-> sectors]]

InitUniverse ==
    /\ pc = "start"
    /\ \E mode \in ScanModes, cap \in MarketCapRanges, sectors \in SectorFilters :
          request = ScanRequest(mode, cap, Null, Null, Null, sectors)
    /\ universe = <<>>
    /\ universeLib = <<>>
    /\ IdleMergeQuotes
    /\ IdleMergeFundamentals
    /\ IdleScan
    /\ IdleFilters
    /\ IdleScorer
    /\ IdleVendors
    /\ IdleOverlap
    /\ IdleWatchlist
    /\ IdleCatalyst

BuildUniverse ==
    /\ pc = "start"
    /\ universe' = buildLiveUniverse(request)
    /\ universeLib' = buildLiveUniverseLib(request)
    /\ pc' = "built"
    /\ UNCHANGED <<libVars, scoreVars, vendorAnswers, overlapVars, uiVars, catalystVars, request, mergeVars, fundVars, scanVars>>

NextUniverse == BuildUniverse

SpecUniverse == InitUniverse /\ [][NextUniverse]_vars

-----------------------------------------------------------------------------
(* Properties of the universe selector, under SpecUniverse *)

\* The predicates a request puts on a registry entry, as the claims state them.
Admits(req, meta) ==
    /\ req.filters.marketCap # "any" => meta.capBucket = req.filters.marketCap
    /\ req.filters.sectors # {} => meta.sector \in req.filters.sectors
    /\ req.mode = "cmbm-style" => meta.capBucket \in {"micro", "small"}
    /\ req.mode = "momentum" => meta.sector \in {"Technology", "Crypto", "ETF"}
    /\ req.mode = "catalyst-hunter" => ~(meta.capBucket = "large" /\ meta.sector = "ETF")

\* `out` is the first 40 (or fewer) entries of `registry` that the request
\* admits, in registry order.
IsFirstAdmitted(out, registry) ==
    LET sat    == { i \in 1..Len(registry) : Admits(request, registry[i]) }
        nth(p) == CHOOSE i \in sat : Cardinality({ j \in sat : j < i }) = p - 1
    IN /\ Len(out) = Min(40, Cardinality(sat))
       /\ \A p \in 1..Len(out) : out[p] = registry[nth(p)]

\* C6: the universe has at most 40 entries, each an entry of the registry,
\* none repeated, in registry order: exactly the first 40 (or fewer) registry
\* entries that satisfy the mode and filter predicates.
C6_UniverseBounded ==
    pc = "built" =>
        /\ Len(universe) <= 40
        /\ Len(universeLib) <= 40
        /\ \A p \in 1..Len(universe) :
              \E i \in 1..Len(TICKER_UNIVERSE) : universe[p] = TICKER_UNIVERSE[i]
        /\ \A p \in 1..Len(universeLib) :
              \E i \in 1..Len(TICKER_UNIVERSE_LIB) : universeLib[p] = TICKER_UNIVERSE_LIB[i]
        /\ \A p, q \in 1..Len(universe) : p # q => universe[p].symbol # universe[q].symbol
        /\ \A p, q \in 1..Len(universeLib) :
              p # q => universeLib[p].symbol # universeLib[q].symbol
        /\ IsFirstAdmitted(universe, TICKER_UNIVERSE)
        /\ IsFirstAdmitted(universeLib, TICKER_UNIVERSE_LIB)

\* C6 witness: a filtered universe that keeps several entries and drops the
\* registry's first entry.
C6_Witness ==
    /\ pc = "built"
    /\ request.mode = "cmbm-style"
    /\ request.filters.sectors # {}
    /\ Len(universe) >= 3
    /\ Len(universe) < Len(TICKER_UNIVERSE)
    /\ universe[1] # TICKER_UNIVERSE[1]

\* C7: every returned ticker satisfies all the active predicates at once, and
\* a combination no registry entry matches gives the empty list.
C7_SelectionSound ==
    pc = "built" =>
        /\ \A p \in 1..Len(universe) : Admits(request, universe[p])
        /\ \A p \in 1..Len(universeLib) : Admits(request, universeLib[p])
        /\ (\A i \in 1..Len(TICKER_UNIVERSE) : ~Admits(request, TICKER_UNIVERSE[i]))
              => universe = <<>>
        /\ (\A i \in 1..Len(TICKER_UNIVERSE_LIB) : ~Admits(request, TICKER_UNIVERSE_LIB[i]))
              => universeLib = <<>>

\* C7, the empty case: cmbm-style with marketCap 'mid' gives the empty universe.
C7_EmptyCase ==
    /\ pc = "built"
    /\ request.mode = "cmbm-style"
    /\ request.filters.marketCap = "mid"
    /\ universe = <<>>
    /\ universeLib = <<>>

\* C7 witness: a mode predicate and both filters active at once, with a
\* non-empty universe.
C7_Witness ==
    /\ pc = "built"
    /\ request.mode = "momentum"
    /\ request.filters.marketCap = "small"
    /\ Cardinality(request.filters.sectors) = 2
    /\ Len(universe) >= 2

-----------------------------------------------------------------------------
(* Numbers of the scorer.  A JavaScript number that need not be an integer   *)
(* is an exact fraction <<n, d>> with d > 0; prices, volumes and timestamps  *)
(* are integers.                                                             *)

Rat(n, d)    == IF d < 0 THEN <<0 - n, 0 - d>> ELSE <<n, d>>
RatInt(k)    == <<k, 1>>
RatAbs(a)    == <<IF a[1] < 0 THEN 0 - a[1] ELSE a[1], a[2]>>
RatAdd(a, b) == <<a[1] * b[2] + b[1] * a[2], a[2] * b[2]>>
RatSub(a, b) == <<a[1] * b[2] - b[1] * a[2], a[2] * b[2]>>
RatMul(a, b) == <<a[1] * b[1], a[2] * b[2]>>
RatLt(a, b)  == a[1] * b[2] < b[1] * a[2]
RatLe(a, b)  == a[1] * b[2] <= b[1] * a[2]
RatEq(a, b)  == a[1] * b[2] = b[1] * a[2]
RatMin(a, b) == IF RatLt(b, a) THEN b ELSE a
RatMax(a, b) == IF RatLt(a, b) THEN b ELSE a
\* Math.round: the integer nearest to a, halves rounded up
RatRound(a)  == (2 * a[1] + a[2]) \div (2 * a[2])

\* Mutant: the change is taken relative to the current price.
ChangePercent_OverPrice(price, prevClose) == Rat((price - prevClose) * 100, price)

\* ((price - prevClose) / prevClose) * 100, for prevClose # 0
ChangePercent(price, prevClose) == Rat((price - prevClose) * 100, prevClose)

(* Scorer: deriveScoreBreakdown, deriveLabels, deriveExplosivePotential, deriveTags *)

\* volume && volume > 1_000_000 ? 1 : 0.7
VolFactor(volume) ==
    IF ~IsNull(volume) /\ Val(volume) > 1000000 THEN RatInt(1) ELSE <<7, 10>>

\* Mutant: momentum is taken from the signed change.
deriveScoreBreakdown_SignedMomentum(changePercent, volume, mode) ==
    LET absChange  == RatAbs(changePercent)
        momentum   == RatMin(RatInt(100), RatMul(RatMul(changePercent, RatInt(5)), VolFactor(volume)))
        structure0 == RatMax(RatInt(30),
                        RatMin(RatInt(95),
                          RatAdd(momentum, RatInt(IF mode = "momentum" THEN 5 ELSE 0))))
        catalysts0 == RatMax(RatInt(10), RatMin(RatInt(90), RatSub(momentum, RatInt(5))))
        catalysts  == IF mode = "catalyst-hunter"
                      THEN RatMin(RatInt(100), RatAdd(catalysts0, RatInt(15)))
                      ELSE catalysts0
        structure  == IF mode = "cmbm-style"
                      THEN RatMin(RatInt(100), RatAdd(structure0, RatInt(10)))
                      ELSE structure0
        sentimentScore == IF RatLe(RatInt(0), changePercent)
                          THEN RatAdd(RatInt(60), absChange)
                          ELSE RatSub(RatInt(40), absChange)
        clamp100(k) == IF k < 0 THEN 0 ELSE IF k > 100 THEN 100 ELSE k
    IN [catalysts |-> RatRound(catalysts),
        momentum  |-> RatRound(momentum),
        structure |-> RatRound(structure),
        sentiment |-> clamp100(RatRound(sentimentScore))]

\* Mutant: a change of exactly zero counts as a fall.
deriveScoreBreakdown_ZeroIsShort(changePercent, volume, mode) ==
    LET absChange  == RatAbs(changePercent)
        momentum   == RatMin(RatInt(100), RatMul(RatMul(absChange, RatInt(5)), VolFactor(volume)))
        structure0 == RatMax(RatInt(30),
                        RatMin(RatInt(95),
                          RatAdd(momentum, RatInt(IF mode = "momentum" THEN 5 ELSE 0))))
        catalysts0 == RatMax(RatInt(10), RatMin(RatInt(90), RatSub(momentum, RatInt(5))))
        catalysts  == IF mode = "catalyst-hunter"
                      THEN RatMin(RatInt(100), RatAdd(catalysts0, RatInt(15)))
                      ELSE catalysts0
        structure  == IF mode = "cmbm-style"
                      THEN RatMin(RatInt(100), RatAdd(structure0, RatInt(10)))
                      ELSE structure0
        sentimentScore == IF RatLt(RatInt(0), changePercent)
                          THEN RatAdd(RatInt(60), absChange)
                          ELSE RatSub(RatInt(40), absChange)
        clamp100(k) == IF k < 0 THEN 0 ELSE IF k > 100 THEN 100 ELSE k
    IN [catalysts |-> RatRound(catalysts),
        momentum  |-> RatRound(momentum),
        structure |-> RatRound(structure),
        sentiment |-> clamp100(RatRound(sentimentScore))]

deriveScoreBreakdown(changePercent, volume, mode) ==
    LET absChange  == RatAbs(changePercent)
        momentum   == RatMin(RatInt(100), RatMul(RatMul(absChange, RatInt(5)), VolFactor(volume)))
        structure0 == RatMax(RatInt(30),
                        RatMin(RatInt(95),
                          RatAdd(momentum, RatInt(IF mode = "momentum" THEN 5 ELSE 0))))
        catalysts0 == RatMax(RatInt(10), RatMin(RatInt(90), RatSub(momentum, RatInt(5))))
        catalysts  == IF mode = "catalyst-hunter"
                      THEN RatMin(RatInt(100), RatAdd(catalysts0, RatInt(15)))
                      ELSE catalysts0
        structure  == IF mode = "cmbm-style"
                      THEN RatMin(RatInt(100), RatAdd(structure0, RatInt(10)))
                      ELSE structure0
        sentimentScore == IF RatLe(RatInt(0), changePercent)
                          THEN RatAdd(RatInt(60), absChange)
                          ELSE RatSub(RatInt(40), absChange)
        clamp100(k) == IF k < 0 THEN 0 ELSE IF k > 100 THEN 100 ELSE k
    IN [catalysts |-> RatRound(catalysts),
        momentum  |-> RatRound(momentum),
        structure |-> RatRound(structure),
        sentiment |-> clamp100(RatRound(sentimentScore))]

\* Mutant: 'cmbm-style' sets the risk to Medium whatever the change is.
deriveLabels_CmbmAlwaysMedium(changePercent, mode) ==
    LET absChange == RatAbs(changePercent)
        grade == IF RatLt(RatInt(15), absChange) THEN "A"
                 ELSE IF RatLt(RatInt(8), absChange) THEN "B"
                 ELSE IF RatLt(RatInt(3), absChange) THEN "C"
                 ELSE "D"
        risk0 == IF RatLt(RatInt(12), absChange) THEN "High"
                 ELSE IF RatLt(RatInt(5), absChange) THEN "Medium"
                 ELSE "Low"
        risk  == IF mode = "cmbm-style" THEN "Medium" ELSE risk0
    IN [momentumGrade |-> grade,
        sentiment     |-> IF RatLe(RatInt(0), changePercent) THEN "Long" ELSE "Short",
        riskLevel     |-> risk]

deriveLabels(changePercent, mode) ==
    LET absChange == RatAbs(changePercent)
        grade == IF RatLt(RatInt(15), absChange) THEN "A"
                 ELSE IF RatLt(RatInt(8), absChange) THEN "B"
                 ELSE IF RatLt(RatInt(3), absChange) THEN "C"
                 ELSE "D"
        risk0 == IF RatLt(RatInt(12), absChange) THEN "High"
                 ELSE IF RatLt(RatInt(5), absChange) THEN "Medium"
                 ELSE "Low"
        risk  == IF mode = "cmbm-style" /\ risk0 # "High" THEN "Medium" ELSE risk0
    IN [momentumGrade |-> grade,
        sentiment     |-> IF RatLe(RatInt(0), changePercent) THEN "Long" ELSE "Short",
        riskLevel     |-> risk]

\* Mutant: the adjusted score is rounded but not clamped.
deriveExplosivePotential_Unclamped(score, mode) ==
    LET base     == <<4 * score.momentum + 3 * score.structure + 2 * score.catalysts
                      + score.sentiment, 10>>
        adjusted == IF mode = "cmbm-style" THEN RatAdd(base, RatInt(10)) ELSE base
    IN RatRound(adjusted)

\* Mutant: the weights of momentum and structure change places.
deriveExplosivePotential_WeightsSwapped(score, mode) ==
    LET base     == <<3 * score.momentum + 4 * score.structure
                        + 2 * score.catalysts + score.sentiment, 10>>
        adjusted == IF mode = "cmbm-style" THEN RatAdd(base, RatInt(10)) ELSE base
        rounded  == RatRound(adjusted)
    IN IF rounded < 0 THEN 0 ELSE IF rounded > 100 THEN 100 ELSE rounded

deriveExplosivePotential(score, mode) ==
    LET base     == <<4 * score.momentum + 3 * score.structure
                        + 2 * score.catalysts + score.sentiment, 10>>
        adjusted == IF mode = "cmbm-style" THEN RatAdd(base, RatInt(10)) ELSE base
        rounded  == RatRound(adjusted)
    IN IF rounded < 0 THEN 0 ELSE IF rounded > 100 THEN 100 ELSE rounded

\* Array.from(new Set(tags)): the first occurrence of each element, in order
RECURSIVE Dedup(_)
Dedup(s) ==
    IF s = <<>> THEN <<>>
    ELSE LET front == Dedup(SubSeq(s, 1, Len(s) - 1))
             last  == s[Len(s)]
         IN IF \E i \in 1..Len(front) : front[i] = last THEN front
            ELSE Append(front, last)

TagIf(cond, tag) == IF cond THEN <<tag>> ELSE <<>>

deriveTags(changePercent, volume, metaSector, capBucket, mode) ==
    LET absChange == RatAbs(changePercent)
    IN Dedup(TagIf(capBucket = "micro" \/ capBucket = "small", "Microcap")
             \o TagIf(metaSector = "Crypto", "Crypto-linked")
             \o TagIf(metaSector = "Technology", "Tech")
             \o TagIf(RatLt(RatInt(10), absChange), "High Volatility")
             \o TagIf(RatLt(RatInt(20), absChange), "Parabolic Risk")
             \o TagIf(~IsNull(volume) /\ Val(volume) > 5000000, "High Volume")
             \o TagIf(mode = "cmbm-style", "CMBM-Style Candidate")
             \o TagIf(mode = "momentum", "Momentum Scan")
             \o TagIf(mode = "catalyst-hunter", "Catalyst Focus"))

-----------------------------------------------------------------------------
(* Provider adapters of the edge function.  A vendor's HTTP answer is either *)
(* a record with ok = FALSE (no connection, a non-2xx status) or with ok =    *)
(* TRUE and the JSON fields the adapter reads.  Market caps and  *)
(* share counts are in thousands, so that the largest fits 32-bit integers.  *)

\* Date.now(), in milliseconds, at the time of the scan
NowMs == 9000

\* fetchFinnhubDailyVolume: the most recent positive volume of the candles
RECURSIVE LastPositive(_)
LastPositive(vs) ==
    IF vs = <<>> THEN Null
    ELSE IF vs[Len(vs)] > 0 THEN Some(vs[Len(vs)])
         ELSE LastPositive(SubSeq(vs, 1, Len(vs) - 1))

fetchFinnhubDailyVolume(hasKey, candles) ==
    IF ~hasKey THEN Null
    ELSE IF ~candles.ok THEN Null
    ELSE LastPositive(candles.v)

\* fetchMassiveRecentDailyVolume: null unless Massive is configured and answers
fetchMassiveRecentDailyVolume(configured, aggs) ==
    IF ~configured THEN Null
    ELSE IF ~aggs.ok THEN Null
    ELSE LastPositive(aggs.v)

\* fetchFinnhubQuote: a missing key throws inside the try block and the catch
\* returns null, like any failed request.
fetchFinnhubQuote(ticker, env, resp) ==
    IF ~env.finnhubKey THEN Null
    ELSE IF ~resp.ok THEN Null
    ELSE IF IsNull(resp.c) \/ IsNull(resp.pc) THEN Null
    ELSE LET quoteVol == IF ~IsNull(resp.v) /\ Val(resp.v) > 0 THEN resp.v ELSE Null
             candleVol == IF IsNull(quoteVol)
                          THEN fetchFinnhubDailyVolume(env.finnhubKey, resp.candles)
                          ELSE quoteVol
             volume == IF IsNull(candleVol)
                       THEN fetchMassiveRecentDailyVolume(env.massiveConfigured, resp.aggs)
                       ELSE candleVol
         IN Some([source    |-> "finnhub",
                  ticker    |-> ticker,
                  price     |-> resp.c,
                  prevClose |-> resp.pc,
                  volume    |-> volume,
                  timestamp |-> IF ~IsNull(resp.t) /\ Val(resp.t) # 0
                                THEN Some(Val(resp.t) * 1000) ELSE Some(NowMs)])

\* fetchMassiveQuote
fetchMassiveQuote(ticker, env, resp) ==
    IF ~env.massiveConfigured THEN Null
    ELSE IF ~resp.ok THEN Null
    ELSE IF IsNull(resp.c) \/ IsNull(resp.o) THEN Null
    ELSE Some([source    |-> "massive",
               ticker    |-> ticker,
               price     |-> resp.c,
               prevClose |-> resp.o,
               volume    |-> resp.v,
               timestamp |-> resp.t])

\* fetchFinnhubFundamentals; marketCapitalization and shareOutstanding come in
\* millions: * 1_000_000 is * 1000 in thousands.
fetchFinnhubFundamentals(ticker, env, resp) ==
    IF ~env.finnhubKey THEN Null
    ELSE IF ~resp.ok THEN Null
    ELSE Some([ticker    |-> ticker,
               marketCap |-> IF IsNull(resp.marketCapitalization) THEN Null
                             ELSE Some(Val(resp.marketCapitalization) * 1000),
               float     |-> IF IsNull(resp.shareOutstanding) THEN Null
                             ELSE Some(Val(resp.shareOutstanding) * 1000),
               sector    |-> resp.finnhubIndustry])

\* Mutant: one call without records empties the whole batch.
RECURSIVE Fulfilled_AllOrNothing(_)
Fulfilled_AllOrNothing(answers) ==
    IF answers = <<>> THEN <<>>
    ELSE IF \E i \in 1..Len(answers) : answers[i] = <<>> THEN <<>>
    ELSE Head(answers) \o Fulfilled_AllOrNothing(Tail(answers))

\* A provider's fetch over the tickers: Promise.allSettled, then the fulfilled
\* non-null values in ticker order.  `answers` is the sequence of the per-ticker
\* adapter results.
RECURSIVE Fulfilled(_)
Fulfilled(answers) ==
    IF answers = <<>> THEN <<>>
    ELSE Head(answers) \o Fulfilled(Tail(answers))

\* Map<string, T[]> built by the grouping loops: the keys in insertion order
RECURSIVE KeysInOrder(_)
KeysInOrder(items) ==
    IF items = <<>> THEN <<>>
    ELSE LET front == KeysInOrder(SubSeq(items, 1, Len(items) - 1))
             k     == items[Len(items)].ticker
         IN IF \E i \in 1..Len(front) : front[i] = k THEN front ELSE Append(front, k)

\* map.get(ticker): the items of one ticker, in arrival order
GroupOf(items, ticker) ==
    LET isOf(x) == x.ticker = ticker IN SelectSeq(items, isOf)

\* map.get(key) on a Map kept as a sequence of <<key, value>> entries
MapHas(m, k) == \E i \in 1..Len(m) : m[i][1] = k
MapGet(m, k) == m[CHOOSE i \in 1..Len(m) : m[i][1] = k][2]

-----------------------------------------------------------------------------
(* News adapters and the catalyst/tag extractor.  A headline is the sequence *)
(* of its characters; a datetime is the millisecond timestamp its ISO string *)
(* stands for (ISO strings of one format compare as their timestamps do).    *)

UpperCaseLetters == <<"A", "B", "C", "D", "E", "F", "G", "H", "I", "J", "K", "L", "M", "N", "O", "P", "Q", "R", "S", "T", "U", "V", "W", "X", "Y", "Z">>
LowerCaseLetters == <<"a", "b", "c", "d", "e", "f", "g", "h", "i", "j", "k", "l", "m", "n", "o", "p", "q", "r", "s", "t", "u", "v", "w", "x", "y", "z">>

\* String.prototype.toLowerCase
toLowerCase(h) ==
    [i \in 1..Len(h) |->
        IF \E k \in 1..Len(UpperCaseLetters) : UpperCaseLetters[k] = h[i]
        THEN LowerCaseLetters[CHOOSE k \in 1..Len(UpperCaseLetters) : UpperCaseLetters[k] = h[i]]
        ELSE h[i]]

\* String.prototype.toUpperCase on the ticker spellings a vendor answers with;
\* an upper-case symbol is its own upper case.
toUpperCase(t) ==
    CASE t = "msft" -> "MSFT"
      [] t = "aapl" -> "AAPL"
      [] t = "ionq" -> "IONQ"
      [] OTHER -> t

\* String.prototype.includes
includes(h, kw) ==
    \E i \in 0..(Len(h) - Len(kw)) : SubSeq(h, i + 1, i + Len(kw)) = kw

\* The tags of buildCatalystFromNews, from the lower-cased primary headline
HeadlineTags(primaryHeadline) ==
    LET headline == toLowerCase(primaryHeadline)
    IN Dedup(
         TagIf(\/ includes(headline, <<"e", "a", "r", "n", "i", "n", "g", "s">>)
               \/ includes(headline, <<"q", "1">>) \/ includes(headline, <<"q", "2">>)
               \/ includes(headline, <<"q", "3">>) \/ includes(headline, <<"q", "4">>),
               "Earnings")
         \o TagIf(includes(headline, <<"g", "u", "i", "d", "a", "n", "c", "e">>), "Guidance")
         \o TagIf(\/ includes(headline, <<"u", "p", "g", "r", "a", "d", "e">>)
                  \/ includes(headline, <<"d", "o", "w", "n", "g", "r", "a", "d", "e">>),
                  "Analyst Action")
         \o TagIf(\/ includes(headline, <<"m", "e", "r", "g", "e", "r">>)
                  \/ includes(headline, <<"a", "c", "q", "u", "i", "s", "i", "t", "i", "o", "n">>),
                  "M&A")
         \o TagIf(\/ includes(headline, <<"c", "o", "n", "t", "r", "a", "c", "t">>)
                  \/ includes(headline, <<"d", "e", "a", "l">>),
                  "Contract")
         \o TagIf(\/ includes(headline, <<"F", "D", "A">>)
                  \/ includes(headline, <<"t", "r", "i", "a", "l">>)
                  \/ includes(headline, <<"p", "h", "a", "s", "e">>),
                  "Biotech Catalyst"))

\* Mutant: an ascending sort reversed, which puts the later of two items with
\* the same datetime first.
SortNewsDesc_TiesReversed(items) ==
    LET n   == Len(items)
        asc == StableDescOrder([i \in 1..n |-> 0 - items[i].datetime])
    IN Permute(items, [p \in 1..n |-> asc[n + 1 - p]])

\* items.sort((a, b) => b.datetime.localeCompare(a.datetime))
SortNewsDesc(items) ==
    Permute(items, StableDescOrder([i \in 1..Len(items) |-> items[i].datetime]))

buildCatalystFromNews(news) ==
    IF Len(news) = 0
    THEN [catalystSummary |-> [kind |-> "no-news"], primary |-> Null, catalystTags |-> <<>>]
    ELSE LET sorted  == SortNewsDesc(news)
             primary == sorted[1]
         IN [catalystSummary |-> [kind |-> "latest", headline |-> primary.headline,
                                  datetime |-> primary.datetime],
             primary         |-> Some(primary),
             catalystTags    |-> HeadlineTags(primary.headline)]

\* One item of the Finnhub company-news answer as a RawNewsItem
FinnhubNewsItem(ticker, item) ==
    [source   |-> "finnhub-news",
     ticker   |-> ticker,
     headline |-> OrElse(item.headline, <<"N", "o", " ", "h", "e", "a", "d", "l", "i", "n", "e">>),
     url      |-> OrElse(item.url, ""),
     datetime |-> IF IsNull(item.datetime) THEN NowMs ELSE Val(item.datetime) * 1000]

\* fetchFinnhubCompanyNews: at most the first five items of the answer
fetchFinnhubCompanyNews(ticker, env, resp) ==
    IF ~env.finnhubKey THEN <<>>
    ELSE IF ~resp.ok THEN <<>>
    ELSE LET firstFive == SubSeq(resp.items, 1, Min(5, Len(resp.items)))
         IN [i \in 1..Len(firstFive) |-> FinnhubNewsItem(ticker, firstFive[i])]

\* The RawNewsItems of one Benzinga item: one per stock it names, the ticker
\* upper-cased; updated, else created (seconds) gives the datetime, else the
\* current time.
BenzingaNewsItems(item) ==
    [k \in 1..Len(item.stocks) |->
        [source   |-> "benzinga-news",
         ticker   |-> toUpperCase(item.stocks[k]),
         headline |-> OrElse(item.title, <<>>),
         url      |-> OrElse(item.url, ""),
         datetime |-> LET ts == IF ~IsNull(item.updated) THEN Val(item.updated) * 1000
                                   ELSE IF ~IsNull(item.created) THEN Val(item.created) * 1000
                                   ELSE 0
                      IN IF ts # 0 THEN ts ELSE NowMs]]

RECURSIVE FlattenBenzinga(_)
FlattenBenzinga(items) ==
    IF items = <<>> THEN <<>>
    ELSE BenzingaNewsItems(Head(items)) \o FlattenBenzinga(Tail(items))

\* fetchBenzingaNews: one request for all the tickers
fetchBenzingaNews(tickers, hasKey, resp) ==
    IF ~hasKey THEN <<>>
    ELSE IF ~resp.ok THEN <<>>
    ELSE FlattenBenzinga(resp.items)

-----------------------------------------------------------------------------
(* The live scan: the client's runScan and the serve handler of the edge     *)
(* function.                                                                 *)

\* lib/filterUtils normalizeFilters: min and max price swapped when inverted.
\* The defaults it fills in (marketCap 'any', sectors []) are already present
\* in every request of the model.
normalizeFilters(filters) ==
    LET inverted == /\ ~IsNull(filters.minPrice)
                    /\ ~IsNull(filters.maxPrice)
                    /\ Val(filters.minPrice) > Val(filters.maxPrice)
    IN IF inverted
       THEN [filters EXCEPT !.minPrice = filters.maxPrice, !.maxPrice = filters.minPrice]
       ELSE filters

\* getMarketCapBucket of the serve handler, the market cap in thousands
getMarketCapBucket(marketCap) ==
    IF marketCap < 300000 THEN "micro"
    ELSE IF marketCap < 2000000 THEN "small"
    ELSE IF marketCap < 10000000 THEN "mid"
    ELSE "large"

\* Steps 2 and 3 of serve: a Map built from the grouped items of the providers
MergeQuotesByTicker(allQuotes) ==
    LET keys    == KeysInOrder(allQuotes)
        entries == [k \in 1..Len(keys) |->
                       <<keys[k], mergeRawQuotes(GroupOf(allQuotes, keys[k]))>>]
        isSet(e) == ~IsNull(e[2])
        kept    == SelectSeq(entries, isSet)
    IN [k \in 1..Len(kept) |-> <<kept[k][1], Val(kept[k][2])>>]

MergeFundamentalsByTicker(allFundamentals) ==
    LET keys    == KeysInOrder(allFundamentals)
        entries == [k \in 1..Len(keys) |->
                       <<keys[k], mergeFundamentals(GroupOf(allFundamentals, keys[k]))>>]
        isSet(e) == ~IsNull(e[2])
        kept    == SelectSeq(entries, isSet)
    IN [k \in 1..Len(kept) |-> <<kept[k][1], Val(kept[k][2])>>]

\* quote.price != null && quote.prevClose != null && quote.prevClose !== 0
HasChange(quote) ==
    ~IsNull(quote.price) /\ ~IsNull(quote.prevClose) /\ Val(quote.prevClose) # 0

\* Math.abs(changePercent) of each entry of the Map
AbsChanges(entries) ==
    [i \in 1..Len(entries) |->
        RatAbs(ChangePercent(Val(entries[i][2].price), Val(entries[i][2].prevClose)))]

\* An integer sort key for each fraction: how many of them are strictly smaller
RankKeys(rats) ==
    [i \in 1..Len(rats) |-> Cardinality({ j \in 1..Len(rats) : RatLt(rats[j], rats[i]) })]

\* Mutant: the first ten in Map order, without the sort.
FirstTenByChange_Unsorted(withChange) ==
    SubSeq(withChange, 1, Min(10, Len(withChange)))

\* quotesWithChange.sort((a, b) => b.absChange - a.absChange).slice(0, 10)
FirstTenByChange(withChange) ==
    SubSeq(Permute(withChange, StableDescOrder(RankKeys(AbsChanges(withChange)))),
           1, Min(10, Len(withChange)))

EntryKeys(entries) == [i \in 1..Len(entries) |-> entries[i][1]]

\* Step 4 of serve: the tickers with a change, by absolute change descending
\* (a stable sort), the first ten.
TopMovers(mq) ==
    LET hasChange(e) == HasChange(e[2])
    IN EntryKeys(FirstTenByChange(SelectSeq(mq, hasChange)))

\* Step 5 of serve: the news grouped by ticker, each group newest first
GroupNewsByTicker(allNews) ==
    LET keys == KeysInOrder(allNews)
    IN [k \in 1..Len(keys) |-> <<keys[k], SortNewsDesc(GroupOf(allNews, keys[k]))>>]

\* if (!quote || quote.price == null || quote.prevClose == null || quote.prevClose === 0) continue
Skipped(mq, meta) ==
    \/ ~MapHas(mq, meta.symbol)
    \/ ~HasChange(MapGet(mq, meta.symbol))

\* Mutant: a missing float is a hundredth of the placeholder market cap.
ScanResultOf_FloatOfPlaceholder(req, meta, quote, changePercent, scoreBreakdown, labels, baseTags, catalyst, fundamentals) ==
    LET marketCap == IF IsNull(fundamentals) THEN 1000000
                     ELSE OrElse(Val(fundamentals).marketCap, 1000000)
        float     == IF IsNull(fundamentals) THEN 1000000 \div 100
                     ELSE OrElse(Val(fundamentals).float, 1000000 \div 100)
        sector    == IF IsNull(fundamentals) THEN meta.sector
                     ELSE OrElse(Val(fundamentals).sector, meta.sector)
    IN [ticker             |-> meta.symbol,
        companyName        |-> meta.symbol,
        price              |-> Val(quote.price),
        changePercent      |-> changePercent,
        volume             |-> OrElse(quote.volume, 0),
        marketCap          |-> marketCap,
        float              |-> float,
        sector             |-> sector,
        scanMode           |-> req.mode,
        catalystSummary    |-> catalyst.catalystSummary,
        momentumGrade      |-> labels.momentumGrade,
        explosivePotential |-> deriveExplosivePotential(scoreBreakdown, req.mode),
        scoreBreakdown     |-> scoreBreakdown,
        sentiment          |-> labels.sentiment,
        riskLevel          |-> labels.riskLevel,
        riskNotes          |-> IF labels.riskLevel = "High"
                               THEN "Extreme volatility detected" ELSE "Monitor closely",
        whyItMightMove     |-> IF RatLe(RatInt(0), changePercent) THEN "Upward" ELSE "Downward",
        tags               |-> Dedup(baseTags \o catalyst.catalystTags),
        primaryNews        |-> catalyst.primary]

\* The ScanResult literal of the assembly loop.  Amounts are in thousands:
\* 1_000_000_000 is 1000000, and marketCap / 100 is exact for the market caps
\* of the model.  Of the whyItMightMove text only the direction word is kept,
\* and the three primaryNews fields are the primary item or nothing.
ScanResultOf(req, meta, quote, changePercent, scoreBreakdown, labels, baseTags, catalyst, fundamentals) ==
    LET marketCap == IF IsNull(fundamentals) THEN 1000000
                     ELSE OrElse(Val(fundamentals).marketCap, 1000000)
        float     == IF IsNull(fundamentals) THEN marketCap \div 100
                     ELSE OrElse(Val(fundamentals).float, marketCap \div 100)
        sector    == IF IsNull(fundamentals) THEN meta.sector
                     ELSE OrElse(Val(fundamentals).sector, meta.sector)
    IN [ticker             |-> meta.symbol,
        companyName        |-> meta.symbol,
        price              |-> Val(quote.price),
        changePercent      |-> changePercent,
        volume             |-> OrElse(quote.volume, 0),
        marketCap          |-> marketCap,
        float              |-> float,
        sector             |-> sector,
        scanMode           |-> req.mode,
        catalystSummary    |-> catalyst.catalystSummary,
        momentumGrade      |-> labels.momentumGrade,
        explosivePotential |-> deriveExplosivePotential(scoreBreakdown, req.mode),
        scoreBreakdown     |-> scoreBreakdown,
        sentiment          |-> labels.sentiment,
        riskLevel          |-> labels.riskLevel,
        riskNotes          |-> IF labels.riskLevel = "High"
                               THEN "Extreme volatility detected" ELSE "Monitor closely",
        whyItMightMove     |-> IF RatLe(RatInt(0), changePercent) THEN "Upward" ELSE "Downward",
        tags               |-> Dedup(baseTags \o catalyst.catalystTags),
        primaryNews        |-> catalyst.primary]

\* The scores, labels, tags and catalyst of one universe entry and its quote
ScoredResult(req, meta, quote, changePercent, fundamentals, news) ==
    ScanResultOf(req, meta, quote, changePercent,
                 deriveScoreBreakdown(changePercent, quote.volume, req.mode),
                 deriveLabels(changePercent, req.mode),
                 deriveTags(changePercent, quote.volume, meta.sector, meta.capBucket, req.mode),
                 buildCatalystFromNews(news),
                 fundamentals)

\* The body of the assembly loop for a universe entry that is not skipped
BuildResult(req, meta, quote, mf, nbt) ==
    ScoredResult(req, meta, quote,
                 ChangePercent(Val(quote.price), Val(quote.prevClose)),
                 IF MapHas(mf, meta.symbol) THEN Some(MapGet(mf, meta.symbol)) ELSE Null,
                 IF MapHas(nbt, meta.symbol) THEN MapGet(nbt, meta.symbol) ELSE <<>>)

BuildResults(req, kept, mq, mf, nbt) ==
    [i \in 1..Len(kept) |-> BuildResult(req, kept[i], MapGet(mq, kept[i].symbol), mf, nbt)]

AssembleResults(req, metaUniverse, mq, mf, nbt) ==
    LET isKept(meta) == ~Skipped(mq, meta)
    IN BuildResults(req, SelectSeq(metaUniverse, isKept), mq, mf, nbt)

\* Mutant: the upper price bound is exclusive.
ApplyFilters_MaxExclusive(rs, filters) ==
    LET byCap(r)    == filters.marketCap # "any"
                          => getMarketCapBucket(r.marketCap) = filters.marketCap
        byMin(r)    == ~IsNull(filters.minPrice) => r.price >= Val(filters.minPrice)
        byMax(r)    == ~IsNull(filters.maxPrice) => r.price < Val(filters.maxPrice)
        byVolume(r) == ~IsNull(filters.minVolume) => r.volume >= Val(filters.minVolume)
        bySector(r) == filters.sectors # {} => r.sector \in filters.sectors
    IN SelectSeq(SelectSeq(SelectSeq(SelectSeq(SelectSeq(rs, byCap), byMin), byMax),
                           byVolume), bySector)

\* The filters of the serve handler, applied with the request's filters as sent
ApplyFilters(rs, filters) ==
    LET byCap(r)    == filters.marketCap # "any"
                          => getMarketCapBucket(r.marketCap) = filters.marketCap
        byMin(r)    == ~IsNull(filters.minPrice) => r.price >= Val(filters.minPrice)
        byMax(r)    == ~IsNull(filters.maxPrice) => r.price <= Val(filters.maxPrice)
        byVolume(r) == ~IsNull(filters.minVolume) => r.volume >= Val(filters.minVolume)
        bySector(r) == filters.sectors # {} => r.sector \in filters.sectors
    IN SelectSeq(SelectSeq(SelectSeq(SelectSeq(SelectSeq(rs, byCap), byMin), byMax),
                           byVolume), bySector)

\* filtered.sort((a, b) => b.explosivePotential - a.explosivePotential)
\* Mutant: results with equal potential come out in reverse order.
SortByPotential_TiesReversed(rs) ==
    LET reversed == [i \in 1..Len(rs) |-> rs[Len(rs) + 1 - i]]
    IN Permute(reversed, StableDescOrder([i \in 1..Len(rs) |-> reversed[i].explosivePotential]))

SortByPotential(rs) ==
    Permute(rs, StableDescOrder([i \in 1..Len(rs) |-> rs[i].explosivePotential]))

(* Inputs of the live scan *)

\* How many tickers of the quote fetch get every vendor answer of the choice
\* sets; the tickers after them share one background answer.
MaxFocus == 2

Environment(finnhubKey, massiveConfigured, benzingaKey) ==
    [finnhubKey |-> finnhubKey, massiveConfigured |-> massiveConfigured,
     benzingaKey |-> benzingaKey]

\* Every credential set, Finnhub alone, Massive and Benzinga without Finnhub,
\* and none.
Environments ==
    { Environment(TRUE, TRUE, TRUE), Environment(TRUE, FALSE, FALSE),
      Environment(FALSE, TRUE, TRUE), Environment(FALSE, FALSE, FALSE) }

NoFilters == [marketCap |-> "any", minPrice |-> Null, maxPrice |-> Null,
              minVolume |-> Null, sectors |-> {}]

\* The filters a caller may send: none, each filter alone, and price bounds
\* the wrong way round.
ScanFilterChoices ==
    { NoFilters,
      [NoFilters EXCEPT !.marketCap = "small"],
      [NoFilters EXCEPT !.sectors = {"Technology"}],
      [NoFilters EXCEPT !.minVolume = Some(1000)],
      [NoFilters EXCEPT !.minPrice = Some(40), !.maxPrice = Some(50)],
      [NoFilters EXCEPT !.minPrice = Some(50), !.maxPrice = Some(40)] }

\* A body without filters: what an untyped caller of the HTTP endpoint may send
MalformedRequest == [mode |-> "momentum"]

NoSeries == [ok |-> FALSE, v |-> <<>>]

QuoteAnswer(c, pc0, v, t, candles) ==
    [ok |-> TRUE, c |-> c, pc |-> pc0, v |-> v, t |-> t, candles |-> candles, aggs |-> NoSeries]

FailedQuote == [ok |-> FALSE, c |-> Null, pc |-> Null, v |-> Null, t |-> Null,
                candles |-> NoSeries, aggs |-> NoSeries]

\* Finnhub /quote answers: no answer; no current price; 45 after 40 with no
\* volume anywhere and no time; 60 after 40 with a volume, timed before the
\* Massive answer; 45 after a previous close of 0, the volume in the candles.
FinnhubQuoteAnswers ==
    { FailedQuote,
      QuoteAnswer(Null, Some(40), Null, Some(1), NoSeries),
      QuoteAnswer(Some(45), Some(40), Null, Null, NoSeries),
      QuoteAnswer(Some(60), Some(40), Some(2000000), Some(1), NoSeries),
      QuoteAnswer(Some(45), Some(0), Some(0), Some(1), [ok |-> TRUE, v |-> <<700, 0>>]) }

\* The answer for the i-th ticker of the universe when the background is up
BackgroundQuote(i) == QuoteAnswer(Some(100 + i), Some(100), Null, Null, NoSeries)

FailedMassive == [ok |-> FALSE, c |-> Null, o |-> Null, v |-> Null, t |-> Null]

MassiveQuoteAnswers ==
    { FailedMassive,
      [ok |-> TRUE, c |-> Some(50), o |-> Some(40), v |-> Some(500), t |-> Some(2000)] }

FailedFundamentals == [ok |-> FALSE, marketCapitalization |-> Null,
                       shareOutstanding |-> Null, finnhubIndustry |-> Null]

\* Finnhub /stock/profile2 answers, the amounts in millions
FundamentalsAnswers ==
    { FailedFundamentals,
      [ok |-> TRUE, marketCapitalization |-> Null, shareOutstanding |-> Null,
       finnhubIndustry |-> Null],
      [ok |-> TRUE, marketCapitalization |-> Some(5000), shareOutstanding |-> Some(300),
       finnhubIndustry |-> Some("Biotechnology")] }

FailedNews == [ok |-> FALSE, items |-> <<>>]

FinnhubNewsAnswers ==
    { FailedNews,
      [ok |-> TRUE,
       items |-> << [headline |-> Some(<<"F", "D", "A", " ", "n", "o", "d">>), url |-> Some("fh-1"),
                     datetime |-> Some(5)] >>] }

\* Benzinga answers to one request for `tickers`: no answer, or one item that
\* names the first ticker asked for and a ticker nobody asked for.
BenzingaItemAnswer(tickers) ==
    [ok |-> TRUE,
     items |-> << [title |-> Some(<<"M", "e", "r", "g", "e", "r">>), url |-> Some("bz-1"),
                   updated |-> Some(7), created |-> Null,
                   stocks |-> SubSeq(tickers, 1, Min(1, Len(tickers))) \o <<"msft">>] >>]

BenzingaAnswers(tickers) == { FailedNews, BenzingaItemAnswer(tickers) }

Symbols(metaUniverse) == [i \in 1..Len(metaUniverse) |-> metaUniverse[i].symbol]

(* The client *)

InitScan ==
    /\ pc = "idle"
    /\ environment \in Environments
    /\ IdleServe
    /\ response = Null
    /\ outcome = Null
    /\ IdleMergeQuotes
    /\ IdleMergeFundamentals
    /\ IdleUniverse
    /\ IdleFilters
    /\ IdleScorer
    /\ IdleVendors
    /\ IdleOverlap
    /\ IdleWatchlist
    /\ IdleCatalyst

\* pages/Index handleRunScan: the filters of the panel are normalized, then
\* runScan(request, 'live') invokes the edge function.
HandleRunScan ==
    /\ pc = "idle"
    /\ \E mode \in ScanModes, filters \in ScanFilterChoices :
          request' = [mode |-> mode, filters |-> normalizeFilters(filters)]
    /\ pc' = "invoked"
    /\ UNCHANGED <<libVars, scoreVars, vendorAnswers, overlapVars, uiVars, catalystVars, mergeVars, fundVars, uniVars, scanVars>>

\* lib/scanEngine runScan called with a request as it is: the provider's
\* runScan passes it to the edge function unchanged.
RunScan ==
    /\ pc = "idle"
    /\ \E req \in [mode : ScanModes, filters : ScanFilterChoices] \cup {MalformedRequest} :
          request' = req
    /\ pc' = "invoked"
    /\ UNCHANGED <<libVars, scoreVars, vendorAnswers, overlapVars, uiVars, catalystVars, mergeVars, fundVars, uniVars, scanVars>>

\* supabase.functions.invoke answers with an error: the function is not
\* reachable.  runScan throws.
InvokeFails ==
    /\ pc = "invoked"
    /\ outcome' = Some([kind |-> "rejected", results |-> <<>>])
    /\ pc' = "done"
    /\ UNCHANGED <<libVars, scoreVars, vendorAnswers, overlapVars, uiVars, catalystVars, mergeVars, fundVars, request, uniVars, environment, serveVars, response>>

\* MultiSourceLiveMarketDataProvider.runScan on the function's answer: a
\* non-2xx answer is `error` and throws; a 200 answer carries an array, which is
\* truthy and an array even when empty, and is returned.
runScanSettles(resp) ==
    IF resp.status # 200
    THEN [kind |-> "rejected", results |-> <<>>]
    ELSE [kind |-> "resolved", results |-> resp.body]

ClientReceives ==
    /\ pc = "responded"
    /\ outcome' = Some(runScanSettles(Val(response)))
    /\ pc' = "done"
    /\ UNCHANGED <<libVars, scoreVars, vendorAnswers, overlapVars, uiVars, catalystVars, mergeVars, fundVars, request, uniVars, environment, serveVars, response>>

(* The serve handler, one action per await *)

\* Mutant: an empty universe is answered as an error.
ServeBuildUniverse_EmptyIsError ==
    /\ pc = "invoked"
    /\ IF "filters" \in DOMAIN request /\ buildLiveUniverse(request) # <<>>
       THEN /\ universe' = buildLiveUniverse(request)
            /\ pc' = "universe"
            /\ UNCHANGED response
       ELSE /\ response' = Some([status |-> 500, body |-> <<>>])
            /\ pc' = "responded"
            /\ UNCHANGED universe
    /\ UNCHANGED <<libVars, scoreVars, vendorAnswers, overlapVars, uiVars, catalystVars, mergeVars, fundVars, request, universeLib,
                   environment, serveVars, outcome>>

\* req.json(), buildLiveUniverse, and the quote fetches are issued.  Reading
\* filters.marketCap of a body without filters throws: the catch answers 500.
ServeBuildUniverse ==
    /\ pc = "invoked"
    /\ IF "filters" \in DOMAIN request
       THEN /\ universe' = buildLiveUniverse(request)
            /\ pc' = "universe"
            /\ UNCHANGED response
       ELSE /\ response' = Some([status |-> 500, body |-> <<>>])
            /\ pc' = "responded"
            /\ UNCHANGED universe
    /\ UNCHANGED <<libVars, scoreVars, vendorAnswers, overlapVars, uiVars, catalystVars, mergeVars, fundVars, request, universeLib, environment, serveVars, outcome>>

\* What Finnhub /quote and Massive answer for the i-th ticker of the fetch:
\* the first nf tickers get the answers fa and ma, the others the background.
FinnhubQuoteAnswerAt(i, nf, background, fa) ==
    IF i <= nf THEN fa[i] ELSE IF background THEN BackgroundQuote(i) ELSE FailedQuote

MassiveQuoteAnswerAt(i, nf, ma) == IF i <= nf THEN ma[i] ELSE FailedMassive

\* Step 2 of serve under given vendor answers: every price provider's quotes,
\* grouped by ticker and merged.
ServeMergeQuotesWith(background, fa, ma) ==
    LET tickers == Symbols(universe)
        nf      == Min(MaxFocus, Len(tickers))
        finnhubQuotes == Fulfilled([i \in 1..Len(tickers) |->
                fetchFinnhubQuote(tickers[i], environment,
                                  FinnhubQuoteAnswerAt(i, nf, background, fa))])
        massiveQuotes == Fulfilled([i \in 1..Len(tickers) |->
                fetchMassiveQuote(tickers[i], environment, MassiveQuoteAnswerAt(i, nf, ma))])
    IN mergedQuotes' = MergeQuotesByTicker(finnhubQuotes \o massiveQuotes)

\* The quote providers have settled: group by ticker, merge, and the
\* fundamentals fetches are issued.
ServeMergeQuotes ==
    /\ pc = "universe"
    /\ \E background \in BOOLEAN :
       \E fa \in [1..Min(MaxFocus, Len(universe)) -> FinnhubQuoteAnswers],
          ma \in [1..Min(MaxFocus, Len(universe)) -> MassiveQuoteAnswers] :
             ServeMergeQuotesWith(background, fa, ma)
    /\ pc' = "quotes"
    /\ UNCHANGED <<libVars, scoreVars, vendorAnswers, overlapVars, uiVars, catalystVars, mergeVars, fundVars, request, uniVars, environment, mergedFundamentals,
                   topMoverTickers, newsByTicker, results, response, outcome>>

\* Step 3 of serve under given vendor answers: `first` for the first ticker of
\* the fetch, `rest` for each of the others.
ServeMergeFundamentalsWith(first, rest) ==
    LET tickers == Symbols(universe)
    IN mergedFundamentals' = MergeFundamentalsByTicker(
           Fulfilled([i \in 1..Len(tickers) |->
               fetchFinnhubFundamentals(tickers[i], environment,
                                        IF i = 1 THEN first ELSE rest)]))

\* The fundamentals providers have settled: group, merge, pick the top movers,
\* and the news fetches are issued.  The first ticker of the fetch gets every
\* answer of the choice set, the others get none.
ServeMergeFundamentals ==
    /\ pc = "quotes"
    /\ \E first \in FundamentalsAnswers :
          ServeMergeFundamentalsWith(first, FailedFundamentals)
    /\ topMoverTickers' = TopMovers(mergedQuotes)
    /\ pc' = "fundamentals"
    /\ UNCHANGED <<libVars, scoreVars, vendorAnswers, overlapVars, uiVars, catalystVars, mergeVars, fundVars, request, uniVars, environment, mergedQuotes,
                   newsByTicker, results, response, outcome>>

\* Step 5 of serve under given vendor answers: Finnhub answers `first` for the
\* first top mover and `rest` for each of the others, Benzinga answers `ba`.
ServeGroupNewsWith(first, rest, ba) ==
    LET finnhubNews  == Fulfilled([i \in 1..Len(topMoverTickers) |->
            fetchFinnhubCompanyNews(topMoverTickers[i], environment,
                                    IF i = 1 THEN first ELSE rest)])
        benzingaNews == fetchBenzingaNews(topMoverTickers, environment.benzingaKey, ba)
    IN newsByTicker' = GroupNewsByTicker(finnhubNews \o benzingaNews)

\* Steps 6 to 8 of serve: assemble the results, filter, sort, answer 200.
ServeAssembleAndAnswer ==
    /\ results' = AssembleResults(request, universe, mergedQuotes, mergedFundamentals,
                                  newsByTicker')
    /\ response' = Some([status |-> 200,
                         body |-> SortByPotential(ApplyFilters(results', request.filters))])

\* The news providers have settled: group and sort the news, assemble the
\* results, filter, sort, answer 200.  The first top mover gets every Finnhub
\* answer of the choice set, the others get none.
ServeRespond ==
    /\ pc = "fundamentals"
    /\ \E first \in FinnhubNewsAnswers, ba \in BenzingaAnswers(topMoverTickers) :
          ServeGroupNewsWith(first, FailedNews, ba)
    /\ ServeAssembleAndAnswer
    /\ pc' = "responded"
    /\ UNCHANGED <<libVars, scoreVars, vendorAnswers, overlapVars, uiVars, catalystVars, mergeVars, fundVars, request, uniVars, environment, mergedQuotes,
                   mergedFundamentals, topMoverTickers, outcome>>

Next ==
    \/ HandleRunScan
    \/ RunScan
    \/ InvokeFails
    \/ ServeBuildUniverse
    \/ ServeMergeQuotes
    \/ ServeMergeFundamentals
    \/ ServeRespond
    \/ ClientReceives

Spec == InitScan /\ [][Next]_vars

-----------------------------------------------------------------------------
(* Properties of the live scan, under Spec *)

\* The edge function has answered 200
Answered == pc \in {"responded", "done"} /\ ~IsNull(response) /\ Val(response).status = 200

\* The handler has just answered 200; the client has not yet read the answer.
JustAnswered == pc = "responded" /\ Val(response).status = 200

NoPriceCredential == ~environment.finnhubKey /\ ~environment.massiveConfigured

\* C8: when no price provider has its credential (FINNHUB_API_KEY unset and
\* Massive not configured), a live runScan that has settled has rejected; it
\* has not resolved with a result list.
C8_NoCredentialRejects ==
    (pc = "done" /\ NoPriceCredential) => Val(outcome).kind = "rejected"

\* The universe entry has a merged quote with a price, a previous close, and
\* a previous close other than 0.
HasUsableQuote(meta) ==
    \E k \in 1..Len(mergedQuotes) :
        /\ mergedQuotes[k][1] = meta.symbol
        /\ ~IsNull(mergedQuotes[k][2].price)
        /\ ~IsNull(mergedQuotes[k][2].prevClose)
        /\ Val(mergedQuotes[k][2].prevClose) # 0

\* r.changePercent = (price - prevClose) / prevClose * 100 for the quote q,
\* compared without dividing
IsChangeOf(r, q) ==
    /\ r.changePercent[2] # 0
    /\ r.changePercent[1] * Val(q.prevClose)
          = (Val(q.price) - Val(q.prevClose)) * 100 * r.changePercent[2]

\* C9: once the edge function has answered, every assembled result belongs to
\* a universe ticker whose merged quote has a non-null price and a non-null,
\* non-zero prevClose, and its changePercent is (price - prevClose) / prevClose
\* * 100 of that quote; a universe ticker without such a quote has no result,
\* and the answer is still a 200; the results follow the universe's order, one
\* per ticker with such a quote.
C9_SkipRule ==
    Answered =>
        /\ \A i \in 1..Len(results) :
              \E k \in 1..Len(mergedQuotes) :
                 /\ mergedQuotes[k][1] = results[i].ticker
                 /\ ~IsNull(mergedQuotes[k][2].price)
                 /\ ~IsNull(mergedQuotes[k][2].prevClose)
                 /\ Val(mergedQuotes[k][2].prevClose) # 0
                 /\ results[i].price = Val(mergedQuotes[k][2].price)
                 /\ IsChangeOf(results[i], mergedQuotes[k][2])
        /\ [i \in 1..Len(results) |-> results[i].ticker]
              = Symbols(SelectSeq(universe, HasUsableQuote))

\* C9 witness: an answered scan whose universe has a ticker with no merged
\* quote, a ticker whose merged quote has prevClose = 0, and a ticker quoted
\* 45 after 40 whose result carries a change of 12.5 percent.
C9_Witness ==
    /\ Answered
    /\ \E a, b, c \in 1..Len(universe) :
          /\ ~MapHas(mergedQuotes, universe[a].symbol)
          /\ MapHas(mergedQuotes, universe[b].symbol)
          /\ MapGet(mergedQuotes, universe[b].symbol).prevClose = Some(0)
          /\ ~\E i \in 1..Len(results) :
                 results[i].ticker \in {universe[a].symbol, universe[b].symbol}
          /\ \E i \in 1..Len(results) :
                 /\ results[i].ticker = universe[c].symbol
                 /\ results[i].price = 45
                 /\ MapGet(mergedQuotes, universe[c].symbol).prevClose = Some(40)
                 /\ RatEq(results[i].changePercent, <<25, 2>>)

InvertedBounds(filters) ==
    /\ ~IsNull(filters.minPrice)
    /\ ~IsNull(filters.maxPrice)
    /\ Val(filters.minPrice) > Val(filters.maxPrice)

\* C10: a scan whose request carries inverted price bounds (minPrice >
\* maxPrice) is answered as if the bounds were swapped: the answer is the
\* assembled results filtered with the normalized filters, so a result priced
\* between the two bounds is kept and one outside them is not.
C10_InvertedBoundsSwapped ==
    (Answered /\ InvertedBounds(request.filters)) =>
        /\ Val(response).body
              = SortByPotential(ApplyFilters(results, normalizeFilters(request.filters)))
        /\ \A i \in 1..Len(results) :
              (/\ results[i].price >= Val(request.filters.maxPrice)
               /\ results[i].price <= Val(request.filters.minPrice))
                 => \E j \in 1..Len(Val(response).body) :
                        Val(response).body[j].ticker = results[i].ticker

\* The result satisfies every active filter of `filters`, as C11 states them;
\* market caps are in thousands.
SatisfiesFilters(r, filters) ==
    /\ ~IsNull(filters.minPrice) => r.price >= Val(filters.minPrice)
    /\ ~IsNull(filters.maxPrice) => r.price <= Val(filters.maxPrice)
    /\ ~IsNull(filters.minVolume) => r.volume >= Val(filters.minVolume)
    /\ filters.sectors # {} => r.sector \in filters.sectors
    /\ filters.marketCap # "any" =>
          filters.marketCap = (IF r.marketCap < 300000 THEN "micro"
                               ELSE IF r.marketCap < 2000000 THEN "small"
                               ELSE IF r.marketCap < 10000000 THEN "mid"
                               ELSE "large")

UniverseIndex(ticker) ==
    IF \E i \in 1..Len(universe) : universe[i].symbol = ticker
    THEN CHOOSE i \in 1..Len(universe) : universe[i].symbol = ticker
    ELSE 0

\* C16: the answered list is in non-increasing order of explosivePotential,
\* and results with equal explosivePotential keep the relative order their
\* tickers have in the universe; this holds after the filters.
C16_SortedByPotential ==
    JustAnswered =>
        \A i, j \in 1..Len(Val(response).body) :
            i < j =>
               /\ Val(response).body[i].explosivePotential
                     >= Val(response).body[j].explosivePotential
               /\ Val(response).body[i].explosivePotential
                     = Val(response).body[j].explosivePotential
                  => UniverseIndex(Val(response).body[i].ticker)
                        < UniverseIndex(Val(response).body[j].ticker)

\* C16 witness: an answered scan with a market-cap filter in which the sort has
\* moved a later ticker of the universe ahead of an earlier one, and two
\* results tie.
C16_Witness ==
    /\ JustAnswered
    /\ request.filters.marketCap # "any"
    /\ \E i, j \in 1..Len(Val(response).body) :
          /\ i < j
          /\ Val(response).body[i].explosivePotential > Val(response).body[j].explosivePotential
          /\ UniverseIndex(Val(response).body[i].ticker)
                > UniverseIndex(Val(response).body[j].ticker)
    /\ \E i, j \in 1..Len(Val(response).body) :
          /\ i < j
          /\ Val(response).body[i].explosivePotential = Val(response).body[j].explosivePotential

\* The merged quote of the ticker has a price and a previous close other than 0.
QuotedWithChange(ticker) ==
    /\ MapHas(mergedQuotes, ticker)
    /\ ~IsNull(MapGet(mergedQuotes, ticker).price)
    /\ ~IsNull(MapGet(mergedQuotes, ticker).prevClose)
    /\ Val(MapGet(mergedQuotes, ticker).prevClose) # 0

\* |changePercent| of the ticker's merged quote.
AbsChangeOf(ticker) ==
    RatAbs(<<(Val(MapGet(mergedQuotes, ticker).price)
                 - Val(MapGet(mergedQuotes, ticker).prevClose)) * 100,
             Val(MapGet(mergedQuotes, ticker).prevClose)>>)

Requested(ticker) == \E i \in 1..Len(topMoverTickers) : topMoverTickers[i] = ticker

\* C17: when the news fetches are issued, the news providers are asked for at
\* most 10 tickers; every requested ticker has a merged quote with a price and
\* a non-zero previous close; and no ticker left out has a strictly larger
\* absolute change than a requested one.
C17_NewsCostBound ==
    pc = "fundamentals" =>
        /\ Len(topMoverTickers) <= 10
        /\ \A i \in 1..Len(topMoverTickers) : QuotedWithChange(topMoverTickers[i])
        /\ \A k \in 1..Len(mergedQuotes) :
              LET left == mergedQuotes[k][1]
              IN (QuotedWithChange(left) /\ ~Requested(left)) =>
                    \A i \in 1..Len(topMoverTickers) :
                        ~RatLt(AbsChangeOf(topMoverTickers[i]), AbsChangeOf(left))

\* C17 witness: ten tickers are requested, a quoted ticker with a change is
\* left out, and a ticker whose previous close is 0 is not requested.
C17_Witness ==
    /\ pc = "fundamentals"
    /\ Len(topMoverTickers) = 10
    /\ \E k \in 1..Len(mergedQuotes) :
          QuotedWithChange(mergedQuotes[k][1]) /\ ~Requested(mergedQuotes[k][1])
    /\ \E k \in 1..Len(mergedQuotes) :
          /\ ~IsNull(mergedQuotes[k][2].prevClose)
          /\ Val(mergedQuotes[k][2].prevClose) = 0
          /\ ~Requested(mergedQuotes[k][1])

\* The headline holds the lower-case keyword in some letter case.
ContainsAnyCase(headline, keyword) == includes(toLowerCase(headline), keyword)

HasTag(r, tag) == \E k \in 1..Len(r.tags) : r.tags[k] = tag

\* C19: catalyst tags are matched against the primary headline in any letter
\* case for every keyword: 'fda', 'trial' or 'phase' gives 'Biotech Catalyst',
\* 'earnings' or 'q1'..'q4' gives 'Earnings', 'guidance' gives 'Guidance',
\* 'upgrade' or 'downgrade' gives 'Analyst Action', 'merger' or 'acquisition'
\* gives 'M&A', 'contract' or 'deal' gives 'Contract'; a tag is present exactly
\* when one of its keywords occurs, and no tag is repeated.
C19_TagsCaseInsensitive ==
    JustAnswered =>
        \A i \in 1..Len(results) :
            ~IsNull(results[i].primaryNews) =>
                LET h == Val(results[i].primaryNews).headline
                    r == results[i]
                IN /\ HasTag(r, "Biotech Catalyst")
                        <=> \/ ContainsAnyCase(h, <<"f", "d", "a">>)
                            \/ ContainsAnyCase(h, <<"t", "r", "i", "a", "l">>)
                            \/ ContainsAnyCase(h, <<"p", "h", "a", "s", "e">>)
                   /\ HasTag(r, "Earnings")
                        <=> \/ ContainsAnyCase(h, <<"e", "a", "r", "n", "i", "n", "g", "s">>)
                            \/ \E q \in {"1", "2", "3", "4"} : ContainsAnyCase(h, <<"q", q>>)
                   /\ HasTag(r, "Guidance")
                        <=> ContainsAnyCase(h, <<"g", "u", "i", "d", "a", "n", "c", "e">>)
                   /\ HasTag(r, "Analyst Action")
                        <=> \/ ContainsAnyCase(h, <<"u", "p", "g", "r", "a", "d", "e">>)
                            \/ ContainsAnyCase(h, <<"d", "o", "w", "n", "g", "r", "a", "d", "e">>)
                   /\ HasTag(r, "M&A")
                        <=> \/ ContainsAnyCase(h, <<"m", "e", "r", "g", "e", "r">>)
                            \/ ContainsAnyCase(h, <<"a", "c", "q", "u", "i", "s", "i", "t", "i", "o", "n">>)
                   /\ HasTag(r, "Contract")
                        <=> \/ ContainsAnyCase(h, <<"c", "o", "n", "t", "r", "a", "c", "t">>)
                            \/ ContainsAnyCase(h, <<"d", "e", "a", "l">>)
                   /\ \A k, l \in 1..Len(r.tags) : r.tags[k] = r.tags[l] => k = l

-----------------------------------------------------------------------------
(* The filter utilities of the client library (src/lib/filterUtils.ts), used
   by the mock provider. *)

\* getMarketCapBucket of the library; market caps are in thousands.
getMarketCapBucketLib(marketCap) ==
    IF marketCap < 300000 THEN "micro"
    ELSE IF marketCap < 2000000 THEN "small"
    ELSE IF marketCap < 10000000 THEN "mid"
    ELSE "large"

\* resultPassesFilters: normalizes the filters, then tests price, volume,
\* sector and market-cap bucket.
resultPassesFilters(result, filters) ==
    LET f        == normalizeFilters(filters)
        priceOk  == /\ (IsNull(f.minPrice) \/ result.price >= Val(f.minPrice))
                    /\ (IsNull(f.maxPrice) \/ result.price <= Val(f.maxPrice))
        volOk    == IsNull(f.minVolume) \/ result.volume >= Val(f.minVolume)
        sectorOk == f.sectors = {} \/ result.sector \in f.sectors
        capOk    == IF f.marketCap # "any"
                    THEN getMarketCapBucketLib(result.marketCap) = f.marketCap
                    ELSE TRUE
    IN priceOk /\ volOk /\ sectorOk /\ capOk

\* Mutant: the filtered list loses its first element.
applyFiltersToResults_DropsFirst(rs, filters) ==
    LET passes(r) == resultPassesFilters(r, filters)
        kept      == SelectSeq(rs, passes)
    IN IF kept = <<>> THEN kept ELSE Tail(kept)

\* applyFiltersToResults: results.filter(r => resultPassesFilters(r, filters)).
applyFiltersToResults(rs, filters) ==
    LET passes(r) == resultPassesFilters(r, filters)
    IN SelectSeq(rs, passes)

\* Inputs: lists of up to MaxResults results, and filter sets with every
\* dimension absent or present, the price bounds also inverted.
MaxResults == 3

\* The fields of a ScanResult that the filters read, and its ticker.
LibResultChoices ==
    { [ticker |-> "AAPL", price |-> 45, volume |-> 500,  sector |-> "Technology",
       marketCap |-> 1000000],
      [ticker |-> "MRNA", price |-> 50, volume |-> 2000, sector |-> "Biotechnology",
       marketCap |-> 5000000],
      [ticker |-> "IONQ", price |-> 40, volume |-> 1000, sector |-> "Technology",
       marketCap |-> 200000],
      [ticker |-> "XOM",  price |-> 60, volume |-> 0,    sector |-> "Energy",
       marketCap |-> 20000000] }

LibPriceBounds ==
    { <<Null, Null>>, <<Some(40), Some(50)>>, <<Some(50), Some(40)>>,
      <<Null, Some(45)>>, <<Some(45), Null>> }

LibFilterChoices ==
    { [marketCap |-> cap, minPrice |-> b[1], maxPrice |-> b[2], minVolume |-> v,
       sectors |-> s] :
        cap \in {"any", "small", "mid"}, b \in LibPriceBounds,
        v \in {Null, Some(1000)}, s \in {{}, {"Technology"}} }

InitFilters ==
    /\ pc = "start"
    /\ \E n \in 0..MaxResults : libResults \in [1..n -> LibResultChoices]
    /\ libFilters \in {Some(f) : f \in LibFilterChoices}
    /\ libFiltered = Null
    /\ IdleMergeQuotes
    /\ IdleMergeFundamentals
    /\ IdleUniverse
    /\ IdleScan
    /\ IdleScorer
    /\ IdleVendors
    /\ IdleOverlap
    /\ IdleWatchlist
    /\ IdleCatalyst

\* The mock provider's call: results = applyFiltersToResults(results, request.filters).
ApplyLibFilters ==
    /\ pc = "start"
    /\ libFiltered' = Some(applyFiltersToResults(libResults, Val(libFilters)))
    /\ pc' = "filtered"
    /\ UNCHANGED <<libResults, libFilters, scoreVars, vendorAnswers, overlapVars, uiVars, catalystVars, mergeVars, fundVars, request,
                   uniVars, scanVars>>

NextFilters == ApplyLibFilters

SpecFilters == InitFilters /\ [][NextFilters]_vars

(* Properties of the library's filters, under SpecFilters *)

\* C12: filtering is idempotent. Applying applyFiltersToResults with the same
\* filters to a list it has already filtered returns that list, the same
\* elements in the same order, also when the price bounds are inverted.
C12_FilterIdempotent ==
    pc = "filtered" =>
        applyFiltersToResults(Val(libFiltered), Val(libFilters)) = Val(libFiltered)

\* C12 witness: filters with inverted price bounds have kept some results of
\* the list and dropped others.
C12_Witness ==
    /\ pc = "filtered"
    /\ InvertedBounds(Val(libFilters))
    /\ Len(Val(libFiltered)) >= 2
    /\ Len(Val(libFiltered)) < Len(libResults)

-----------------------------------------------------------------------------
(* The scorer on its own: deriveScoreBreakdown and deriveExplosivePotential
   applied to one changePercent, volume and mode. *)

\* Inputs: changes n/d for n in -MaxChange..MaxChange and the denominators
\* below, and two changes far past every clamp; volumes absent, zero and on
\* either side of 1,000,000.
MaxChange == 50

ChangeDenominators == {1, 2, 8}

ChangeChoices ==
    { <<n, d>> : n \in (0 - MaxChange)..MaxChange, d \in ChangeDenominators }
        \cup { <<1000, 1>>, <<0 - 1000, 1>> }

ScoreVolumeChoices == { Null, Some(0), Some(1000000), Some(1000001) }

InitScorer ==
    /\ pc = "start"
    /\ \E c \in ChangeChoices, v \in ScoreVolumeChoices, mode \in ScanModes :
          scoreArgs = Some([changePercent |-> c, volume |-> v, mode |-> mode])
    /\ scoreOut = Null
    /\ IdleMergeQuotes
    /\ IdleMergeFundamentals
    /\ IdleUniverse
    /\ IdleScan
    /\ IdleFilters
    /\ IdleVendors
    /\ IdleOverlap
    /\ IdleWatchlist
    /\ IdleCatalyst

\* The two calls of the assembly loop: the breakdown, then the potential from it.
ScoresOf(scoreBreakdown, labels, mode) ==
    [scoreBreakdown     |-> scoreBreakdown,
     labels             |-> labels,
     explosivePotential |-> deriveExplosivePotential(scoreBreakdown, mode)]

DeriveScores ==
    /\ pc = "start"
    /\ scoreOut' = Some(ScoresOf(deriveScoreBreakdown(Val(scoreArgs).changePercent,
                                     Val(scoreArgs).volume, Val(scoreArgs).mode),
                                 deriveLabels(Val(scoreArgs).changePercent, Val(scoreArgs).mode),
                                 Val(scoreArgs).mode))
    /\ pc' = "scored"
    /\ UNCHANGED <<scoreArgs, libVars, vendorAnswers, overlapVars, uiVars, catalystVars, mergeVars, fundVars, request, uniVars, scanVars>>

NextScorer == DeriveScores

SpecScorer == InitScorer /\ [][NextScorer]_vars

(* Properties of the scorer, under SpecScorer *)

\* C13: for every changePercent, volume (null and 0 included) and mode, each
\* of the four sub-scores is an integer between 0 and 100, and so is
\* explosivePotential.
C13_ScoresInRange ==
    pc = "scored" =>
        /\ Val(scoreOut).scoreBreakdown.catalysts \in 0..100
        /\ Val(scoreOut).scoreBreakdown.momentum \in 0..100
        /\ Val(scoreOut).scoreBreakdown.structure \in 0..100
        /\ Val(scoreOut).scoreBreakdown.sentiment \in 0..100
        /\ Val(scoreOut).explosivePotential \in 0..100

\* C13 witness: a cmbm-style score whose weighted sum plus 10 passes 100 and
\* is clamped to 100, momentum and sentiment being at their upper clamps.
C13_Witness ==
    /\ pc = "scored"
    /\ Val(scoreArgs).mode = "cmbm-style"
    /\ Val(scoreOut).scoreBreakdown.momentum = 100
    /\ Val(scoreOut).scoreBreakdown.sentiment = 100
    /\ 4 * Val(scoreOut).scoreBreakdown.momentum + 3 * Val(scoreOut).scoreBreakdown.structure
          + 2 * Val(scoreOut).scoreBreakdown.catalysts + Val(scoreOut).scoreBreakdown.sentiment
          + 100 > 1000
    /\ Val(scoreOut).explosivePotential = 100

\* C14: with volume and mode fixed, momentum does not decrease as the absolute
\* change grows, stays at 100 once it has reached 100, and is the same for a
\* change and its negation.
C14_MomentumMonotone ==
    pc = "scored" =>
        LET c2 == Val(scoreArgs).changePercent
            v  == Val(scoreArgs).volume
            md == Val(scoreArgs).mode
            m2 == Val(scoreOut).scoreBreakdown.momentum
        IN /\ \A c1 \in ChangeChoices :
                 RatLe(RatAbs(c1), RatAbs(c2)) =>
                    /\ deriveScoreBreakdown(c1, v, md).momentum <= m2
                    /\ deriveScoreBreakdown(c1, v, md).momentum = 100 => m2 = 100
           /\ deriveScoreBreakdown(<<0 - c2[1], c2[2]>>, v, md).momentum = m2

\* C14 witness: a falling change scored 100 for momentum, with a smaller change
\* already at 100 and another one strictly below.
C14_Witness ==
    /\ pc = "scored"
    /\ Val(scoreArgs).changePercent[1] < 0
    /\ Val(scoreOut).scoreBreakdown.momentum = 100
    /\ \E c1 \in ChangeChoices :
          /\ RatLt(RatAbs(c1), RatAbs(Val(scoreArgs).changePercent))
          /\ deriveScoreBreakdown(c1, Val(scoreArgs).volume, Val(scoreArgs).mode).momentum = 100
    /\ \E c1 \in ChangeChoices :
          /\ RatLt(RatAbs(c1), RatAbs(Val(scoreArgs).changePercent))
          /\ deriveScoreBreakdown(c1, Val(scoreArgs).volume, Val(scoreArgs).mode).momentum < 100

\* round(base + sign * |n/d|) clamped to 0..100, in integer arithmetic.
ClampedRound(base, sign, n, d) ==
    LET a == IF n < 0 THEN 0 - n ELSE n
        k == (2 * (base * d + sign * a) + d) \div (2 * d)
    IN IF k < 0 THEN 0 ELSE IF k > 100 THEN 100 ELSE k

\* C15: sentiment is clamp(round(60 + |c|), 0, 100) for c >= 0 and
\* clamp(round(40 - |c|), 0, 100) for c < 0, whatever the volume and the mode,
\* and exactly 60 for c = 0.
C15_SentimentFormula ==
    pc = "scored" =>
        LET c == Val(scoreArgs).changePercent
            s == Val(scoreOut).scoreBreakdown.sentiment
        IN /\ c[1] >= 0 => s = ClampedRound(60, 1, c[1], c[2])
           /\ c[1] < 0 => s = ClampedRound(40, 0 - 1, c[1], c[2])
           /\ c[1] = 0 => s = 60
           /\ \A v \in ScoreVolumeChoices, md \in ScanModes :
                 deriveScoreBreakdown(c, v, md).sentiment = s

\* C15 witness: a change of exactly zero has been scored.
C15_Witness ==
    /\ pc = "scored"
    /\ Val(scoreArgs).changePercent[1] = 0
    /\ Val(scoreOut).scoreBreakdown.sentiment = 60

-----------------------------------------------------------------------------
(* One scan of the serve handler under recorded vendor answers: what every
   endpoint answers is fixed before the scan and kept in vendorAnswers. *)

\* Finnhub /quote answers of the recorded scans: an HTTP error or a thrown
\* fetch; an answer without a current price; 60 after 40 with a volume.
RecordedQuoteAnswers ==
    { FailedQuote,
      QuoteAnswer(Null, Some(40), Null, Some(1), NoSeries),
      QuoteAnswer(Some(60), Some(40), Some(2000000), Some(1), NoSeries) }

\* What the endpoints answer for the tickers after the first
RestFundamentals == [ok |-> TRUE, marketCapitalization |-> Some(800),
                     shareOutstanding |-> Null, finnhubIndustry |-> Null]

RestNews ==
    [ok |-> TRUE,
     items |-> << [headline |-> Some(<<"D", "e", "a", "l">>), url |-> Some("fh-2"),
                   datetime |-> Some(3)] >>]

\* Two requests with a universe of many tickers, one whose universe is empty
\* (no cmbm-style entry of the registry is mid-cap), and one with a sector
\* filter and a lower price bound.
RecordedRequests ==
    { [mode |-> "momentum", filters |-> NoFilters],
      [mode |-> "catalyst-hunter", filters |-> NoFilters],
      [mode |-> "cmbm-style", filters |-> [NoFilters EXCEPT !.marketCap = "mid"]],
      ScanRequest("cmbm-style", "any", Some(55), Null, Null, {"Crypto"}) }

InitRecorded ==
    /\ pc = "invoked"
    /\ environment \in Environments
    /\ request \in RecordedRequests
    /\ \E fa \in [1..MaxFocus -> RecordedQuoteAnswers], ma \in [1..MaxFocus -> MassiveQuoteAnswers],
          ff \in FundamentalsAnswers, fn \in FinnhubNewsAnswers, bz \in BOOLEAN :
          vendorAnswers = Some([fa |-> fa, ma |-> ma, fundamentals |-> ff, news |-> fn,
                                benzinga |-> bz])
    /\ universe = <<>>
    /\ universeLib = <<>>
    /\ IdleServe
    /\ response = Null
    /\ outcome = Null
    /\ IdleMergeQuotes
    /\ IdleMergeFundamentals
    /\ IdleFilters
    /\ IdleScorer
    /\ IdleOverlap
    /\ IdleWatchlist
    /\ IdleCatalyst

RecordedMergeQuotes ==
    /\ pc = "universe"
    /\ ServeMergeQuotesWith(TRUE, Val(vendorAnswers).fa, Val(vendorAnswers).ma)
    /\ pc' = "quotes"
    /\ UNCHANGED <<libVars, scoreVars, vendorAnswers, overlapVars, uiVars, catalystVars, mergeVars, fundVars, request, uniVars,
                   environment, mergedFundamentals, topMoverTickers, newsByTicker, results,
                   response, outcome>>

RecordedMergeFundamentals ==
    /\ pc = "quotes"
    /\ ServeMergeFundamentalsWith(Val(vendorAnswers).fundamentals, RestFundamentals)
    /\ topMoverTickers' = TopMovers(mergedQuotes)
    /\ pc' = "fundamentals"
    /\ UNCHANGED <<libVars, scoreVars, vendorAnswers, overlapVars, uiVars, catalystVars, mergeVars, fundVars, request, uniVars,
                   environment, mergedQuotes, newsByTicker, results, response, outcome>>

\* What Benzinga answers to the one request for the top movers
\* Benzinga's answer of the recorded scans: no answer, or one article about the
\* first ticker asked for whose stocks also name MSFT and AMD.
RecordedBenzinga ==
    IF Val(vendorAnswers).benzinga
    THEN [BenzingaItemAnswer(topMoverTickers) EXCEPT !.items[1].stocks = @ \o <<"AMD">>]
    ELSE FailedNews

RecordedRespond ==
    /\ pc = "fundamentals"
    /\ ServeGroupNewsWith(Val(vendorAnswers).news, RestNews, RecordedBenzinga)
    /\ ServeAssembleAndAnswer
    /\ pc' = "responded"
    /\ UNCHANGED <<libVars, scoreVars, vendorAnswers, overlapVars, uiVars, catalystVars, mergeVars, fundVars, request, uniVars,
                   environment, mergedQuotes, mergedFundamentals, topMoverTickers, outcome>>

NextRecorded ==
    \/ ServeBuildUniverse
    \/ RecordedMergeQuotes
    \/ RecordedMergeFundamentals
    \/ RecordedRespond
    \/ ClientReceives

SpecRecorded == InitRecorded /\ [][NextRecorded]_vars

(* Properties of a scan with failing calls, under SpecRecorded *)

\* The recorded answer of each per-ticker call.
QuoteAnswerOf(i) ==
    FinnhubQuoteAnswerAt(i, Min(MaxFocus, Len(universe)), TRUE, Val(vendorAnswers).fa)

MassiveAnswerOf(i) ==
    MassiveQuoteAnswerAt(i, Min(MaxFocus, Len(universe)), Val(vendorAnswers).ma)

FundamentalsAnswerOf(i) == IF i = 1 THEN Val(vendorAnswers).fundamentals ELSE RestFundamentals

NewsAnswerOf(i) == IF i = 1 THEN Val(vendorAnswers).news ELSE RestNews

\* A call fails when its credential is missing or its request errors or throws.
FinnhubQuoteFails(i)  == ~environment.finnhubKey \/ ~QuoteAnswerOf(i).ok
MassiveQuoteFails(i)  == ~environment.massiveConfigured \/ ~MassiveAnswerOf(i).ok
FundamentalsFails(i)  == ~environment.finnhubKey \/ ~FundamentalsAnswerOf(i).ok
FinnhubNewsFails(i)   == ~environment.finnhubKey \/ ~NewsAnswerOf(i).ok
BenzingaFails         == ~environment.benzingaKey \/ ~RecordedBenzinga.ok

\* The records of one ticker when every failing call is taken to have returned
\* nothing and every other call to have returned what its endpoint answered.
QuotesExpected(i) ==
    (IF FinnhubQuoteFails(i) THEN <<>>
     ELSE fetchFinnhubQuote(universe[i].symbol, environment, QuoteAnswerOf(i)))
    \o (IF MassiveQuoteFails(i) THEN <<>>
        ELSE fetchMassiveQuote(universe[i].symbol, environment, MassiveAnswerOf(i)))

FundamentalsExpected(i) ==
    IF FundamentalsFails(i) THEN <<>>
    ELSE fetchFinnhubFundamentals(universe[i].symbol, environment, FundamentalsAnswerOf(i))

NewsExpected(i) ==
    LET ofTicker(item) == item.ticker = topMoverTickers[i]
    IN (IF FinnhubNewsFails(i) THEN <<>>
        ELSE fetchFinnhubCompanyNews(topMoverTickers[i], environment, NewsAnswerOf(i)))
       \o (IF BenzingaFails THEN <<>>
           ELSE SelectSeq(fetchBenzingaNews(topMoverTickers, environment.benzingaKey,
                                            RecordedBenzinga), ofTicker))

\* The entry of a Map kept as a sequence of <<key, value>>, or Null.
EntryOf(map, key) == IF MapHas(map, key) THEN Some(MapGet(map, key)) ELSE Null

SomeCallFails ==
    \/ \E i \in 1..Len(universe) :
          FinnhubQuoteFails(i) \/ MassiveQuoteFails(i) \/ FundamentalsFails(i)
    \/ \E i \in 1..Len(topMoverTickers) : FinnhubNewsFails(i)
    \/ BenzingaFails

\* C18: when per-ticker provider calls fail (HTTP error, exception, missing
\* credential), the scan still answers 200, a failing call contributes no
\* record, and the quote, fundamentals and news records of every ticker are
\* exactly those obtained when the failing calls are taken to have returned
\* nothing.
C18_FailureIsolated ==
    (pc = "responded" /\ ~IsNull(vendorAnswers) /\ SomeCallFails) =>
        /\ Val(response).status = 200
        /\ \A i \in 1..Len(universe) :
              /\ EntryOf(mergedQuotes, universe[i].symbol) = mergeRawQuotes(QuotesExpected(i))
              /\ EntryOf(mergedFundamentals, universe[i].symbol)
                    = mergeFundamentals(FundamentalsExpected(i))
        /\ \A i \in 1..Len(topMoverTickers) :
              EntryOf(newsByTicker, topMoverTickers[i])
                 = (IF NewsExpected(i) = <<>> THEN Null ELSE Some(SortNewsDesc(NewsExpected(i))))

\* C18 witness: every credential is set; the first ticker's Finnhub quote and
\* fundamentals calls fail and the first top mover's news call fails, while
\* the second ticker has its quote and the scan answers a non-empty list.
C18_Witness ==
    /\ pc = "responded"
    /\ ~IsNull(vendorAnswers)
    /\ environment = Environment(TRUE, TRUE, TRUE)
    /\ ~Val(vendorAnswers).fa[1].ok
    /\ ~Val(vendorAnswers).fundamentals.ok
    /\ ~Val(vendorAnswers).news.ok
    /\ MapHas(mergedQuotes, universe[2].symbol)
    /\ Val(response).status = 200
    /\ Len(Val(response).body) >= 2


\* C20: a scan whose universe is empty completes with HTTP 200 carrying an
\* empty list, which the client's runScan returns without throwing; and no
\* result of any scan is for a ticker outside the universe, also when a
\* provider returns data for such a ticker.
C20_EmptyUniverse ==
    (pc \in {"responded", "done"} /\ ~IsNull(vendorAnswers)) =>
        /\ universe = <<>> =>
              /\ Val(response) = [status |-> 200, body |-> <<>>]
              /\ pc = "done" => outcome = Some([kind |-> "resolved", results |-> <<>>])
        /\ \A j \in 1..Len(Val(response).body) :
              \E i \in 1..Len(universe) : universe[i].symbol = Val(response).body[j].ticker

\* C20 witness: the universe is empty, Benzinga has returned news for MSFT,
\* which nobody asked for, and the client has received 200 with [].
C20_Witness ==
    /\ pc = "done"
    /\ ~IsNull(vendorAnswers)
    /\ universe = <<>>
    /\ MapHas(newsByTicker, "MSFT")
    /\ Val(response) = [status |-> 200, body |-> <<>>]
    /\ outcome = Some([kind |-> "resolved", results |-> <<>>])

-----------------------------------------------------------------------------
(* Two invocations of the serve handler that overlap in time, each provider
   call settling on its own.  Every local of the handler is a field of the
   invocation's record in `scans`; the only module-level data the handler
   reads are TICKER_UNIVERSE (kept in tickerRegistry) and the credentials. *)

ScanIds == {1, 2}

\* The provider calls of one invocation: <<kind, i>> is the call for the i-th
\* ticker of the fetch; Benzinga is one call for all tickers.
QuoteCalls(n)        == ({"finnhub-quote", "massive-quote"} \X (1..n))
FundamentalsCalls(n) == ({"finnhub-fundamentals"} \X (1..n))
NewsCalls(n)         == ({"finnhub-news"} \X (1..n)) \cup {<<"benzinga-news", 0>>}

IsPriceCall(c)        == c[1] \in {"finnhub-quote", "massive-quote"}
IsFundamentalsCall(c) == c[1] = "finnhub-fundamentals"
IsNewsCall(c)         == c[1] \in {"finnhub-news", "benzinga-news"}

\* What the vendors answer to the two invocations, call by call.
AnswerAt(answers, i, none) == IF i \in 1..Len(answers) THEN answers[i] ELSE none

MassiveUp == [ok |-> TRUE, c |-> Some(50), o |-> Some(40), v |-> Some(500), t |-> Some(2000)]

OverlapAnswers ==
    { [fq |-> << QuoteAnswer(Some(60), Some(40), Some(2000000), Some(1), NoSeries),
                 QuoteAnswer(Some(45), Some(40), Null, Null, NoSeries) >>,
       mq |-> << FailedMassive, MassiveUp >>,
       ff |-> << FailedFundamentals, RestFundamentals >>,
       fn |-> << RestNews, FailedNews >>,
       bz |-> TRUE],
      [fq |-> << FailedQuote,
                 QuoteAnswer(Some(60), Some(40), Some(2000000), Some(1), NoSeries) >>,
       mq |-> << MassiveUp, FailedMassive >>,
       ff |-> << RestFundamentals, FailedFundamentals >>,
       fn |-> << FailedNews, RestNews >>,
       bz |-> FALSE] }

\* Requests whose universes have two tickers each: RIOT and MARA, HUDI and JOBY.
OverlapRequests ==
    { ScanRequest("cmbm-style", "any", Null, Null, Null, {"Crypto"}),
      ScanRequest("daily-volatility", "any", Null, Null, Null, {"Industrial"}) }

\* The locals of an invocation that has parsed its request.
ReceivedScan(req, answers) ==
    [pc |-> "received", request |-> req, answers |-> answers, metaUniverse |-> <<>>,
     pending |-> {}, settled |-> {}, mergedQuotes |-> <<>>, mergedFundamentals |-> <<>>,
     topMoverTickers |-> <<>>, response |-> Null]

InitOverlap ==
    /\ pc = "serving"
    /\ environment = Environment(TRUE, TRUE, TRUE)
    /\ tickerRegistry = Some(TICKER_UNIVERSE)
    /\ \E req \in [ScanIds -> OverlapRequests], answers \in [ScanIds -> OverlapAnswers] :
          scans = Some([id \in ScanIds |-> ReceivedScan(req[id], answers[id])])
    /\ vendorAnswers = Null
    /\ request = Null
    /\ universe = <<>>
    /\ universeLib = <<>>
    /\ IdleServe
    /\ response = Null
    /\ outcome = Null
    /\ IdleMergeQuotes
    /\ IdleMergeFundamentals
    /\ IdleFilters
    /\ IdleScorer
    /\ IdleWatchlist
    /\ IdleCatalyst

\* What the adapter of call c returns to invocation `scan`.
CallResult(scan, c) ==
    LET tickers == Symbols(scan.metaUniverse)
    IN CASE c[1] = "finnhub-quote" ->
              fetchFinnhubQuote(tickers[c[2]], environment,
                                AnswerAt(scan.answers.fq, c[2], FailedQuote))
         [] c[1] = "massive-quote" ->
              fetchMassiveQuote(tickers[c[2]], environment,
                                AnswerAt(scan.answers.mq, c[2], FailedMassive))
         [] c[1] = "finnhub-fundamentals" ->
              fetchFinnhubFundamentals(tickers[c[2]], environment,
                                       AnswerAt(scan.answers.ff, c[2], FailedFundamentals))
         [] c[1] = "finnhub-news" ->
              fetchFinnhubCompanyNews(scan.topMoverTickers[c[2]], environment,
                                      AnswerAt(scan.answers.fn, c[2], FailedNews))
         [] OTHER ->
              fetchBenzingaNews(scan.topMoverTickers, environment.benzingaKey,
                                IF scan.answers.bz
                                THEN BenzingaItemAnswer(scan.topMoverTickers)
                                ELSE FailedNews)

\* Mutant: the settled values are kept in one module-level table that every
\* invocation reads, the lowest invocation's value first.
SettledValue_Shared(id, c) ==
    LET holders == { j \in ScanIds : \E e \in Val(scans)[j].settled : e.call = c }
        first   == CHOOSE j \in holders : \A k \in holders : j <= k
    IN IF holders = {} THEN <<>>
       ELSE (CHOOSE e \in Val(scans)[first].settled : e.call = c).value

\* The value call c settled with in invocation id; nothing when it has not settled.
SettledValue(id, c) ==
    IF \E e \in Val(scans)[id].settled : e.call = c
    THEN (CHOOSE e \in Val(scans)[id].settled : e.call = c).value
    ELSE <<>>

\* Promise.allSettled over the n calls of a kind, then the fulfilled values in
\* call order.
Collected(id, kind, n) == Fulfilled([i \in 1..n |-> SettledValue(id, <<kind, i>>)])

\* Mutant: a stage goes on as soon as at most one call is outstanding.
StageSettled_AllButOne(scan) == Cardinality(scan.pending) <= 1

\* Promise.all over the providers of the stage has resolved.
StageSettled(scan) == scan.pending = {}

\* Step 1: buildLiveUniverse, then every price provider's calls are issued.
OverlapBuildUniverse(id) ==
    LET scan == Val(scans)[id]
        metaUniverse == buildLiveUniverseFrom(Val(tickerRegistry), scan.request)
    IN /\ scan.pc = "received"
       /\ scans' = Some([Val(scans) EXCEPT ![id] =
              [scan EXCEPT !.pc = "quotes", !.metaUniverse = metaUniverse,
                           !.pending = QuoteCalls(Len(metaUniverse))]])
       /\ UNCHANGED tickerRegistry

\* One provider call settles, in any order within and across invocations.
OverlapSettle(id) ==
    LET scan == Val(scans)[id]
    IN /\ \E c \in scan.pending :
             scans' = Some([Val(scans) EXCEPT ![id] =
                 [scan EXCEPT !.pending = scan.pending \ {c},
                              !.settled = scan.settled
                                             \cup {[call |-> c, value |-> CallResult(scan, c)]}]])
       /\ UNCHANGED tickerRegistry

\* Steps 2 and 3: the quotes are merged, the fundamentals calls are issued.
OverlapMergeQuotes(id) ==
    LET scan == Val(scans)[id]
        n    == Len(scan.metaUniverse)
    IN /\ scan.pc = "quotes"
       /\ StageSettled(scan)
       /\ scans' = Some([Val(scans) EXCEPT ![id] =
              [scan EXCEPT !.pc = "fundamentals",
                           !.mergedQuotes = MergeQuotesByTicker(
                               Collected(id, "finnhub-quote", n)
                                  \o Collected(id, "massive-quote", n)),
                           !.pending = scan.pending \cup FundamentalsCalls(n)]])
       /\ UNCHANGED tickerRegistry

\* Steps 3 to 5: the fundamentals are merged, the top movers picked, the news
\* calls issued.
OverlapMergeFundamentals(id) ==
    LET scan == Val(scans)[id]
        n    == Len(scan.metaUniverse)
        top  == TopMovers(scan.mergedQuotes)
    IN /\ scan.pc = "fundamentals"
       /\ StageSettled(scan)
       /\ scans' = Some([Val(scans) EXCEPT ![id] =
              [scan EXCEPT !.pc = "news",
                           !.mergedFundamentals = MergeFundamentalsByTicker(
                               Collected(id, "finnhub-fundamentals", n)),
                           !.topMoverTickers = top,
                           !.pending = scan.pending \cup NewsCalls(Len(top))]])
       /\ UNCHANGED tickerRegistry

\* The answer of serve from the maps of one invocation.
AnswerFrom(req, metaUniverse, mq, mf, nbt) ==
    [status |-> 200,
     body |-> SortByPotential(ApplyFilters(AssembleResults(req, metaUniverse, mq, mf, nbt),
                                           req.filters))]

\* Steps 5 to 8: the news is grouped, the results assembled, filtered, sorted
\* and answered.
OverlapRespond(id) ==
    LET scan == Val(scans)[id]
        k    == Len(scan.topMoverTickers)
    IN /\ scan.pc = "news"
       /\ StageSettled(scan)
       /\ scans' = Some([Val(scans) EXCEPT ![id] =
              [scan EXCEPT !.pc = "responded",
                           !.response = Some(AnswerFrom(scan.request, scan.metaUniverse,
                               scan.mergedQuotes, scan.mergedFundamentals,
                               GroupNewsByTicker(Collected(id, "finnhub-news", k)
                                                    \o SettledValue(id, <<"benzinga-news", 0>>))))]])
       /\ UNCHANGED tickerRegistry

OverlapStep(id) ==
    \/ OverlapBuildUniverse(id)
    \/ OverlapSettle(id)
    \/ OverlapMergeQuotes(id)
    \/ OverlapMergeFundamentals(id)
    \/ OverlapRespond(id)

NextOverlap ==
    /\ \E id \in ScanIds : OverlapStep(id)
    /\ UNCHANGED <<pc, libVars, scoreVars, vendorAnswers, uiVars, catalystVars, mergeVars, fundVars, request,
                   uniVars, scanVars>>

SpecOverlap == InitOverlap /\ [][NextOverlap]_vars


\* The handler run on its own with request req and vendor answers `answers`:
\* each stage computed from all of its calls' results at once.
AloneResponse(req, answers) ==
    LET metaUniverse == buildLiveUniverse(req)
        tickers == Symbols(metaUniverse)
        n   == Len(tickers)
        env == Environment(TRUE, TRUE, TRUE)
        mq  == MergeQuotesByTicker(
                  Fulfilled([i \in 1..n |-> fetchFinnhubQuote(tickers[i], env,
                                               AnswerAt(answers.fq, i, FailedQuote))])
                  \o Fulfilled([i \in 1..n |-> fetchMassiveQuote(tickers[i], env,
                                               AnswerAt(answers.mq, i, FailedMassive))]))
        mf  == MergeFundamentalsByTicker(
                  Fulfilled([i \in 1..n |-> fetchFinnhubFundamentals(tickers[i], env,
                                               AnswerAt(answers.ff, i, FailedFundamentals))]))
        top == TopMovers(mq)
        nbt == GroupNewsByTicker(
                  Fulfilled([i \in 1..Len(top) |-> fetchFinnhubCompanyNews(top[i], env,
                                               AnswerAt(answers.fn, i, FailedNews))])
                  \o fetchBenzingaNews(top, TRUE,
                        IF answers.bz THEN BenzingaItemAnswer(top) ELSE FailedNews))
    IN AnswerFrom(req, metaUniverse, mq, mf, nbt)

\* C21: scan isolation.  Under every interleaving of the provider callbacks of
\* two overlapping invocations, the answer of each invocation is the answer it
\* gives when it runs alone with the same request and the same vendor answers,
\* and TICKER_UNIVERSE has the same entries in the same order throughout.
C21_ScansIsolated ==
    /\ Val(tickerRegistry) = TICKER_UNIVERSE
    /\ \A id \in ScanIds :
          LET scan == Val(scans)[id]
          IN scan.pc = "responded"
                => Val(scan.response) = AloneResponse(scan.request, scan.answers)

\* Both invocations have answered, with different requests and different vendor
\* answers, each with a result, and one of them has carried news.
C21_Witness ==
    /\ scans # Null
    /\ \A id \in ScanIds : Val(scans)[id].pc = "responded"
    /\ Val(scans)[1].request # Val(scans)[2].request
    /\ Val(scans)[1].answers # Val(scans)[2].answers
    /\ \A id \in ScanIds : Len(Val(Val(scans)[id].response).body) >= 1
    /\ \E id \in ScanIds : \E i \in 1..Len(Val(Val(scans)[id].response).body) :
          Val(Val(scans)[id].response).body[i].primaryNews # Null


\* A call of the invocation has been issued: it is outstanding or has settled.
Issued(scan) == scan.pending \cup { e.call : e \in scan.settled }

\* C23: stage ordering.  In every invocation no fundamentals call is issued
\* while a price call is outstanding, no news call is issued while a price or
\* fundamentals call is outstanding, and the results are assembled and answered
\* only when no call at all is outstanding.
C23_StagesInOrder ==
    \A id \in ScanIds :
       LET scan == Val(scans)[id]
       IN /\ (\E c \in Issued(scan) : IsFundamentalsCall(c))
                => ~ \E p \in scan.pending : IsPriceCall(p)
          /\ (\E c \in Issued(scan) : IsNewsCall(c))
                => ~ \E p \in scan.pending : IsPriceCall(p) \/ IsFundamentalsCall(p)
          /\ scan.pc = "responded"
                => /\ scan.pending = {}
                   /\ \A c \in Issued(scan) : \E e \in scan.settled : e.call = c

\* Inside one stage the calls settle in any order: in one invocation the second
\* ticker's news call has settled before the first ticker's and before
\* Benzinga's, while in the other invocation, still in its price stage, the
\* second Massive quote has settled before the first Finnhub quote.
C23_Witness ==
    /\ scans # Null
    /\ \E id \in ScanIds : \E other \in ScanIds \ {id} :
          LET scan == Val(scans)[id]
          IN /\ scan.pc = "news"
             /\ <<"finnhub-news", 2>> \in { e.call : e \in scan.settled }
             /\ <<"finnhub-news", 1>> \in scan.pending
             /\ <<"benzinga-news", 0>> \in scan.pending
             /\ Val(scans)[other].pc = "quotes"
             /\ <<"massive-quote", 2>> \in { e.call : e \in Val(scans)[other].settled }
             /\ <<"finnhub-quote", 1>> \in Val(scans)[other].pending


-----------------------------------------------------------------------------
(* Further properties of the recorded scans *)

\* The assembled result of `ticker`, when there is one.
ResultsOf(ticker) == { i \in 1..Len(results) : results[i].ticker = ticker }

InBody(ticker) ==
    \E i \in 1..Len(Val(response).body) : Val(response).body[i].ticker = ticker

\* The merged fundamentals of `ticker` lack `field`.
Lacks(ticker, field) ==
    \/ ~MapHas(mergedFundamentals, ticker)
    \/ IsNull(MapGet(mergedFundamentals, ticker)[field])

\* C22: placeholders.  A universe ticker with a usable quote has exactly one
\* assembled result whatever its fundamentals are; where the merged
\* fundamentals are missing or leave a field null, marketCap is 1,000,000,000
\* (1,000,000 thousands), float is a hundredth of the resolved marketCap and
\* sector is the registry's sector; and with marketCap filter 'any' a ticker
\* without fundamentals is in the answer exactly when its price and volume pass.
C22_Placeholders ==
    JustAnswered =>
       \A k \in 1..Len(universe) :
          LET meta == universe[k]
          IN ~Skipped(mergedQuotes, meta) =>
                /\ Cardinality(ResultsOf(meta.symbol)) = 1
                /\ \A i \in ResultsOf(meta.symbol) :
                      LET r == results[i]
                      IN /\ Lacks(meta.symbol, "marketCap") => r.marketCap = 1000000
                         /\ ~Lacks(meta.symbol, "marketCap") =>
                               r.marketCap = Val(MapGet(mergedFundamentals, meta.symbol).marketCap)
                         /\ Lacks(meta.symbol, "float") => r.float * 100 = r.marketCap
                         /\ Lacks(meta.symbol, "sector") => r.sector = meta.sector
                         /\ (/\ request.filters.marketCap = "any"
                             /\ ~MapHas(mergedFundamentals, meta.symbol))
                               => (InBody(meta.symbol) <=>
                                     SatisfiesFilters([r EXCEPT !.sector = meta.sector],
                                                      request.filters))

\* An answered scan with a sector filter and a price bound in which one ticker
\* has no fundamentals at all and is in the answer, and another has a market
\* cap from the vendor and a float derived from it.
C22_Witness ==
    /\ JustAnswered
    /\ request.filters.sectors # {}
    /\ \E k \in 1..Len(universe) :
          /\ ~Skipped(mergedQuotes, universe[k])
          /\ ~MapHas(mergedFundamentals, universe[k].symbol)
          /\ InBody(universe[k].symbol)
    /\ \E i \in 1..Len(results) :
          /\ ~Lacks(results[i].ticker, "marketCap")
          /\ Lacks(results[i].ticker, "float")
          /\ results[i].marketCap # 1000000
          /\ results[i].float * 100 = results[i].marketCap


-----------------------------------------------------------------------------
(* Further properties of the scorer *)

\* C24: the structure sub-score is round(clamp(momentum + modeBonus, 30, upper))
\* with modeBonus 5 in 'momentum' mode, 10 in 'cmbm-style' mode and 0 otherwise,
\* the bonus added before the lower clamp of 30 (upper is 100 in 'cmbm-style'
\* mode and 95 otherwise).
C24_StructureBonusBeforeClamp ==
    pc = "scored" =>
        LET c         == Val(scoreArgs).changePercent
            mode      == Val(scoreArgs).mode
            momentum  == RatMin(RatInt(100),
                                RatMul(RatMul(RatAbs(c), RatInt(5)),
                                       VolFactor(Val(scoreArgs).volume)))
            modeBonus == IF mode = "momentum" THEN 5
                         ELSE IF mode = "cmbm-style" THEN 10 ELSE 0
            upper     == IF mode = "cmbm-style" THEN 100 ELSE 95
        IN Val(scoreOut).scoreBreakdown.structure
              = RatRound(RatMax(RatInt(30),
                                RatMin(RatInt(upper), RatAdd(momentum, RatInt(modeBonus)))))


-----------------------------------------------------------------------------
(* Further properties of the assembled results *)

\* Ten times the weighted sum of the sub-scores of a breakdown, with the bonus
\* of the mode: 0.4, 0.3, 0.2 and 0.1 are 4, 3, 2 and 1 tenths.
WeightedTenths(sb, mode) ==
    4 * sb.momentum + 3 * sb.structure + 2 * sb.catalysts + sb.sentiment
       + (IF mode = "cmbm-style" THEN 100 ELSE 0)

\* clamp(round(tenths / 10), 0, 100) for tenths >= 0, a half rounding up.
PotentialOf(sb, mode) ==
    LET rounded == (WeightedTenths(sb, mode) + 5) \div 10
    IN IF rounded > 100 THEN 100 ELSE rounded

\* C25: the explosivePotential of every assembled result is
\* clamp(round(0.4 momentum + 0.3 structure + 0.2 catalysts + 0.1 sentiment
\* + 10 in 'cmbm-style' mode), 0, 100) of the rounded sub-scores kept in its
\* scoreBreakdown, and for that breakdown the 'cmbm-style' value is never below
\* the value of any other mode.
C25_PotentialFormula ==
    JustAnswered =>
       \A i \in 1..Len(results) :
          LET r == results[i]
          IN /\ r.explosivePotential = PotentialOf(r.scoreBreakdown, r.scanMode)
             /\ r.explosivePotential \in 0..100
             /\ \A mode \in ScanModes :
                   PotentialOf(r.scoreBreakdown, "cmbm-style")
                      >= PotentialOf(r.scoreBreakdown, mode)

\* A 'cmbm-style' result whose bonus takes the sum past 100, clamped to 100,
\* next to a result with unequal momentum and structure scores.
C25_Witness ==
    /\ JustAnswered
    /\ \E i \in 1..Len(results) :
          /\ results[i].scanMode = "cmbm-style"
          /\ WeightedTenths(results[i].scoreBreakdown, "momentum") < 995
          /\ WeightedTenths(results[i].scoreBreakdown, "cmbm-style") > 1005
          /\ results[i].explosivePotential = 100
    /\ \E i \in 1..Len(results) :
          results[i].scoreBreakdown.momentum # results[i].scoreBreakdown.structure


-----------------------------------------------------------------------------
(* The labels of the scorer *)

RiskRank(riskLevel) ==
    CASE riskLevel = "Low" -> 0 [] riskLevel = "Medium" -> 1 [] riskLevel = "High" -> 2

GradeRank(grade) ==
    CASE grade = "D" -> 0 [] grade = "C" -> 1 [] grade = "B" -> 2 [] grade = "A" -> 3

\* C26: riskLevel does not decrease as |changePercent| grows (Low, Medium above
\* 5, High above 12) and is never Low in 'cmbm-style' mode; momentumGrade does
\* not get worse as |changePercent| grows (D, C above 3, B above 8, A above 15);
\* the sentiment label is Long exactly when changePercent >= 0 and Short
\* otherwise.
C26_LabelsMonotone ==
    pc = "scored" =>
        LET c2     == Val(scoreArgs).changePercent
            md     == Val(scoreArgs).mode
            labels == Val(scoreOut).labels
            abs2   == RatAbs(c2)
            above(k) == RatLt(RatInt(k), abs2)
        IN /\ \A c1 \in ChangeChoices :
                 RatLe(RatAbs(c1), abs2) =>
                    /\ RiskRank(deriveLabels(c1, md).riskLevel) <= RiskRank(labels.riskLevel)
                    /\ GradeRank(deriveLabels(c1, md).momentumGrade)
                          <= GradeRank(labels.momentumGrade)
           /\ labels.riskLevel = "High" <=> above(12)
           /\ md # "cmbm-style" => (labels.riskLevel = "Medium" <=> above(5) /\ ~above(12))
           /\ md = "cmbm-style" => labels.riskLevel # "Low"
           /\ labels.momentumGrade = "A" <=> above(15)
           /\ labels.momentumGrade = "B" <=> above(8) /\ ~above(15)
           /\ labels.momentumGrade = "C" <=> above(3) /\ ~above(8)
           /\ labels.momentumGrade = "D" <=> ~above(3)
           /\ labels.sentiment = "Long" <=> RatLe(RatInt(0), c2)
           /\ labels.sentiment = "Short" <=> RatLt(c2, RatInt(0))

\* A 'cmbm-style' scan of a ticker that has not moved: Medium where another
\* mode gives Low, grade D, Long.
C26_Witness ==
    /\ pc = "scored"
    /\ Val(scoreArgs).mode = "cmbm-style"
    /\ RatEq(Val(scoreArgs).changePercent, RatInt(0))
    /\ Val(scoreOut).labels = [momentumGrade |-> "D", sentiment |-> "Long", riskLevel |-> "Medium"]
    /\ deriveLabels(Val(scoreArgs).changePercent, "momentum").riskLevel = "Low"


-----------------------------------------------------------------------------
(* buildCatalystFromNews on its own, over the news lists of one ticker *)

MaxNews == 3

NewsHeadlines ==
    { <<"D", "e", "a", "l">>, <<"M", "e", "r", "g", "e", "r">>, <<"Q", "1">> }

\* RawNewsItems of one ticker; two datetimes, so that items tie.
NewsItemChoices ==
    { [source |-> "finnhub-news", ticker |-> "AAPL", headline |-> h, url |-> "", datetime |-> d] :
         h \in NewsHeadlines, d \in {1000, 2000} }

InitCatalyst ==
    /\ pc = "start"
    /\ \E n \in 0..MaxNews : newsArg \in [1..n -> NewsItemChoices]
    /\ catalystOut = Null
    /\ IdleMergeQuotes
    /\ IdleMergeFundamentals
    /\ IdleUniverse
    /\ IdleScan
    /\ IdleFilters
    /\ IdleScorer
    /\ IdleVendors
    /\ IdleOverlap
    /\ IdleWatchlist

BuildCatalyst ==
    /\ pc = "start"
    /\ catalystOut' = Some(buildCatalystFromNews(newsArg))
    /\ pc' = "built"
    /\ UNCHANGED <<newsArg, libVars, scoreVars, vendorAnswers, overlapVars, uiVars, mergeVars,
                   fundVars, request, uniVars, scanVars>>

NextCatalyst == BuildCatalyst

SpecCatalyst == InitCatalyst /\ [][NextCatalyst]_vars

\* C27: buildCatalystFromNews of an empty list is the fixed no-news summary
\* with no primary and no tags; of a non-empty list, the primary is the first
\* item in input order among those with the greatest datetime, the summary is
\* made of that item's headline and datetime, and the tags are those of that
\* item's headline alone.
C27_PrimaryIsLatest ==
    pc = "built" =>
       LET out == Val(catalystOut)
       IN IF newsArg = <<>>
          THEN out = [catalystSummary |-> [kind |-> "no-news"], primary |-> Null,
                      catalystTags |-> <<>>]
          ELSE \E i \in 1..Len(newsArg) :
                  /\ \A j \in 1..Len(newsArg) : newsArg[j].datetime <= newsArg[i].datetime
                  /\ \A j \in 1..(i - 1) : newsArg[j].datetime < newsArg[i].datetime
                  /\ out.primary = Some(newsArg[i])
                  /\ out.catalystSummary = [kind |-> "latest", headline |-> newsArg[i].headline,
                                            datetime |-> newsArg[i].datetime]
                  /\ out.catalystTags = HeadlineTags(newsArg[i].headline)

\* Three items: an older one first, then two with the same latest datetime and
\* different headlines; the primary is the second one and the tags are its own,
\* not the older item's and not the third one's.
C27_Witness ==
    /\ pc = "built"
    /\ Len(newsArg) = 3
    /\ newsArg[1].datetime < newsArg[2].datetime
    /\ newsArg[2].datetime = newsArg[3].datetime
    /\ newsArg[1].headline = <<"Q", "1">>
    /\ newsArg[2].headline = <<"D", "e", "a", "l">>
    /\ newsArg[3].headline = <<"M", "e", "r", "g", "e", "r">>
    /\ Val(catalystOut).primary = Some(newsArg[2])
    /\ Val(catalystOut).catalystTags = <<"Contract">>


-----------------------------------------------------------------------------
(* The sector filter and the news join of the recorded scans *)

\* The result passes the market-cap, price and volume filters of the request.
PassesCapPriceVolume(r, filters) ==
    SatisfiesFilters(r, [filters EXCEPT !.sectors = {}])

\* C28: with a non-empty sector filter, every universe ticker with a usable
\* merged quote whose result passes the price, volume and market-cap filters
\* is in the answer, whatever fundamentals the vendors return for it: the
\* sector filter on the results removes no ticker the universe selector
\* admitted.
C28_SectorFilterKeepsUniverse ==
    (JustAnswered /\ request.filters.sectors # {}) =>
       \A i \in 1..Len(results) :
          PassesCapPriceVolume(results[i], request.filters) => InBody(results[i].ticker)


CatalystTagNames ==
    {"Earnings", "Guidance", "Analyst Action", "M&A", "Contract", "Biotech Catalyst"}

\* C29: a result whose ticker was not among the top movers sent to the news
\* providers carries the fixed no-news summary, no primary news and no tag
\* derived from a headline, whatever the news providers return.
C29_NoNewsOutsideTopMovers ==
    JustAnswered =>
       \A i \in 1..Len(results) :
          ~Requested(results[i].ticker) =>
             /\ results[i].catalystSummary = [kind |-> "no-news"]
             /\ results[i].primaryNews = Null
             /\ \A k \in 1..Len(results[i].tags) : results[i].tags[k] \notin CatalystTagNames


-----------------------------------------------------------------------------
(* The watchlist of pages/Index.  `watchlist` is the state React holds,
   `rendered` the value of the watchlist constant in the closures of the last
   render, and `updates` the updater functions passed to setWatchlist that
   React has not applied yet.  pc records what the last step was. *)

MaxWatch   == 3
MaxPending == 2

WatchTickers == {"AAPL", "RIOT"}

TickersOf(items) == [i \in 1..Len(items) |-> items[i].ticker]

NoDuplicateTickers(items) ==
    \A i, j \in 1..Len(items) : items[i].ticker = items[j].ticker => i = j

\* The items appended by the updaters not yet applied
PendingItems(ups) ==
    LET isAppend(u) == u.kind = "append"
        appends     == SelectSeq(ups, isAppend)
    IN [i \in 1..Len(appends) |-> appends[i].item]

\* crypto.randomUUID(): an id no item in sight carries
FreshId ==
    LET used == { it.id : it \in { (watchlist \o rendered \o PendingItems(updates))[i] :
                                      i \in 1..(Len(watchlist) + Len(rendered)
                                                  + Len(PendingItems(updates))) } }
    IN CHOOSE n \in 1..(Cardinality(used) + 1) : n \notin used

\* One updater applied to the previous state
ApplyUpdate(prev, u) ==
    LET otherTicker(w) == w.ticker # u.ticker
        otherId(w)     == w.id # u.id
    IN CASE u.kind = "append"       -> Append(prev, u.item)
         [] u.kind = "removeTicker" -> SelectSeq(prev, otherTicker)
         [] OTHER                   -> SelectSeq(prev, otherId)

\* React applies the queued updaters in order, each to the result of the one
\* before.
RECURSIVE ApplyUpdates(_, _)
ApplyUpdates(prev, ups) ==
    IF ups = <<>> THEN prev
    ELSE ApplyUpdates(ApplyUpdate(prev, Head(ups)), Tail(ups))

\* The watchlists read back from storage at mount: no ticker twice
StoredWatchlists ==
    { <<>>,
      << [id |-> 1, ticker |-> "AAPL"] >>,
      << [id |-> 1, ticker |-> "RIOT"] >>,
      << [id |-> 1, ticker |-> "AAPL"], [id |-> 2, ticker |-> "RIOT"] >> }

InitWatchlist ==
    /\ pc = "rendered"
    /\ watchlist \in StoredWatchlists
    /\ rendered = watchlist
    /\ updates = <<>>
    /\ IdleMergeQuotes
    /\ IdleMergeFundamentals
    /\ IdleUniverse
    /\ IdleScan
    /\ IdleFilters
    /\ IdleScorer
    /\ IdleVendors
    /\ IdleOverlap
    /\ IdleCatalyst

UiUnchanged ==
    UNCHANGED <<libVars, scoreVars, vendorAnswers, overlapVars, catalystVars, mergeVars,
                fundVars, request, uniVars, scanVars>>

\* handleAddToWatchlist(result) with the duplicate found in the rendered
\* watchlist: a toast and nothing else.
HandleAddRejected ==
    /\ \E ticker \in WatchTickers :
          \E i \in 1..Len(rendered) : rendered[i].ticker = ticker
    /\ pc' = "rejected"
    /\ UNCHANGED uiVars
    /\ UiUnchanged

\* handleAddToWatchlist(result) with no duplicate in the rendered watchlist:
\* setWatchlist(prev => [...prev, item]).
HandleAddToWatchlist ==
    /\ Len(updates) < MaxPending
    /\ Len(watchlist) + Len(PendingItems(updates)) < MaxWatch
    /\ \E ticker \in WatchTickers :
          /\ ~ \E i \in 1..Len(rendered) : rendered[i].ticker = ticker
          /\ updates' = Append(updates, [kind |-> "append",
                                         item |-> [id |-> FreshId, ticker |-> ticker]])
    /\ pc' = "added"
    /\ UNCHANGED <<watchlist, rendered>>
    /\ UiUnchanged

\* handleRemoveFromWatchlist(result):
\* setWatchlist(prev => prev.filter(w => w.result.ticker !== result.ticker)).
HandleRemoveFromWatchlist ==
    /\ Len(updates) < MaxPending
    /\ \E ticker \in WatchTickers :
          updates' = Append(updates, [kind |-> "removeTicker", ticker |-> ticker])
    /\ pc' = "removed"
    /\ UNCHANGED <<watchlist, rendered>>
    /\ UiUnchanged

\* handleRemoveWatchlistItem(id) for an item shown:
\* setWatchlist(prev => prev.filter(w => w.id !== id)).
HandleRemoveWatchlistItem ==
    /\ Len(updates) < MaxPending
    /\ \E i \in 1..Len(rendered) :
          updates' = Append(updates, [kind |-> "removeId", id |-> rendered[i].id])
    /\ pc' = "removed"
    /\ UNCHANGED <<watchlist, rendered>>
    /\ UiUnchanged

\* React processes the queue and renders: the handlers of the new render close
\* over the new watchlist.
Render ==
    /\ updates # <<>>
    /\ watchlist' = ApplyUpdates(watchlist, updates)
    /\ rendered' = watchlist'
    /\ updates' = <<>>
    /\ pc' = "rendered"
    /\ UiUnchanged

NextWatchlist ==
    \/ HandleAddRejected
    \/ HandleAddToWatchlist
    \/ HandleRemoveFromWatchlist
    \/ HandleRemoveWatchlistItem
    \/ Render

SpecWatchlist == InitWatchlist /\ [][NextWatchlist]_vars

\* C30: starting from a watchlist without duplicate tickers, after any sequence
\* of add and remove actions, two adds of one ticker before a re-render
\* included, the watchlist holds at most one item per ticker.
C30_WatchlistUnique == NoDuplicateTickers(watchlist)

\* A rejected duplicate add leaves the watchlist and the queue as they were.
RejectedAddChangesNothing ==
    [][pc' = "rejected" => (watchlist' = watchlist /\ updates' = updates)]_vars

=============================================================================
